---- MODULE Spec2Model ----
(***************************************************************************)
(* A model of the gopushbullet client library (src/gopushbullet.go).       *)
(*                                                                         *)
(* A Client holds an API key, a base URL and an HTTP transport handle.     *)
(* Every endpoint method is a straight-line routine that builds a payload, *)
(* hands at most one request to the transport, waits for the transport's   *)
(* answer and turns it into return values.  A call is modelled in two      *)
(* steps: the method's action runs the code up to the point where the      *)
(* request is handed to the transport (or to an early return), and Deliver *)
(* runs the rest of the method on the answer the transport gives.          *)
(***************************************************************************)
EXTENDS Integers, Sequences, FiniteSets, TLC

VARIABLES
    client,   \* the Client struct: APIKey, BaseURL
    pc,       \* per caller: "idle", "waiting", "returned", "panicked"
    call,     \* per caller: the method invoked and its arguments
    sent,     \* per caller: the requests handed to the transport by the call
    resp,     \* per caller: what the transport answered
    mc,       \* per caller: makeCall's return values (responseBody, apiError, err)
    ret,      \* per caller: the values the method returned to its caller
    logs,     \* per caller: lines the call wrote with log.Println
    resBody,  \* per caller: the body of the response: "none", "open", "closed"
    parts     \* per caller: the parts written to the multipart form of an upload

vars == <<client, pc, call, sent, resp, mc, ret, logs, resBody, parts>>

----------------------------------------------------------------------------
(* Bounds of the model.                                                    *)

MaxKeyLen == 2      \* longest API key (in bytes) a client is built with
MaxItems == 2       \* longest checklist handed to a send operation

----------------------------------------------------------------------------
(* Go values.                                                              *)

\* A Go error value; the nil error is NilErr.
NilErr == [msg |-> "nil", code |-> 0]

Err(m) == [msg |-> m, code |-> 0]

\* errors.New("Error: API key required.")
ErrMissingKey == Err("Error: API key required.")

\* errors.New("Invalid target type")
ErrInvalidTarget == Err("Invalid target type")

\* fmt.Errorf("Status code: %v", res.StatusCode)
ErrStatusCode(status) == [msg |-> "Status code: ", code |-> status]

\* Errors made by the standard library.
ErrURLParse == Err("parse: invalid port")
ErrTransport == Err("transport failure")
ErrRead == Err("body read failure")
ErrJSONSyntax == Err("json: syntax error")
ErrJSONType == Err("json: cannot unmarshal into Go value")

\* A nil pointer, nil slice of bytes or nil interface is the empty tuple;
\* a non-nil one is the one-element tuple of what it refers to.
Nil == <<>>

Ref(x) == <<x>>

\* A []string: the nil slice and the empty non-nil slice are distinct values.
NilSlice == [isNil |-> TRUE, elems |-> <<>>]

Slice(s) == [isNil |-> FALSE, elems |-> s]

----------------------------------------------------------------------------
(* JSON documents, as trees.                                               *)

JNull == [t |-> "null"]

JStr(s) == [t |-> "string", v |-> s]

JNum(n) == [t |-> "number", v |-> n]

JBool(b) == [t |-> "bool", v |-> b]

JArr(s) == [t |-> "array", v |-> s]

JObj(r) == [t |-> "object", v |-> r]

\* The object with no members, {}.
NoMembers == [k \in {} |-> JNull]

\* A byte sequence that is not a JSON text.
NotJSON == [t |-> "invalid json"]

----------------------------------------------------------------------------
(* encoding/base64, StdEncoding: bytes to 6-bit symbols, 64 is the pad '='. *)

RECURSIVE EncodeToString(_)
EncodeToString(bs) ==
    IF Len(bs) = 0 THEN <<>>
    ELSE IF Len(bs) = 1 THEN
        LET n == bs[1] * 65536
        IN  <<n \div 262144, (n \div 4096) % 64, 64, 64>>
    ELSE IF Len(bs) = 2 THEN
        LET n == bs[1] * 65536 + bs[2] * 256
        IN  <<n \div 262144, (n \div 4096) % 64, (n \div 64) % 64, 64>>
    ELSE
        LET n == bs[1] * 65536 + bs[2] * 256 + bs[3]
        IN  <<n \div 262144, (n \div 4096) % 64, (n \div 64) % 64, n % 64>>
            \o EncodeToString(SubSeq(bs, 4, Len(bs)))

\* The byte ':'.
Colon == 58

\* "Basic " + base64(APIKey + ":")
BasicAuth(key) == <<"Basic ", EncodeToString(key \o <<Colon>>)>>

----------------------------------------------------------------------------
(* The data model (type declarations of src/gopushbullet.go).              *)

\* The zero value of PushMessage.
ZeroPushMessage ==
    [ID |-> "", DeviceID |-> "", Email |-> "", ChannelTag |-> "", ClientID |-> "",
     Type |-> "", Title |-> "", Body |-> "", URL |-> "", Name |-> "",
     Address |-> "", Items |-> NilSlice,
     FileName |-> "", FileType |-> "", FileURL |-> "", SourceDeviceID |-> "",
     Created |-> 0, Modified |-> 0, Active |-> FALSE, Dismissed |-> FALSE,
     SenderID |-> "", SenderEmail |-> "", SenderEmailNormalized |-> "",
     ReceiverID |-> "", ReceiverEmail |-> "", ReceiverEmailNormalized |-> ""]

\* PushMessage{...}: a composite literal sets the named fields, the rest are zero.
PushMessage(fields) ==
    [f \in DOMAIN ZeroPushMessage |->
        IF f \in DOMAIN fields THEN fields[f] ELSE ZeroPushMessage[f]]

\* The zero value of the Error struct (the error envelope).
ZeroError == [ErrorBody |-> [Message |-> "", Type |-> "", Cat |-> ""]]

\* The zero value of Preferences.
ZeroPreferences ==
    [Onboarding |-> [App |-> FALSE, Friends |-> FALSE, Extension |-> FALSE],
     Social |-> FALSE, Cat |-> ""]

\* Error.String() that looks at the cat field where the code looks at type.
ErrorString_ByCat(e) ==
    <<IF e[1].ErrorBody.Cat = "invalid_request"
      THEN "Invalid Request" ELSE "Server Error",
      ": ", e[1].ErrorBody.Message>>

\* Error.String() with the two branches of its test exchanged.
ErrorString_Exchanged(e) ==
    <<IF e[1].ErrorBody.Type # "invalid_request"
      THEN "Invalid Request" ELSE "Server Error",
      ": ", e[1].ErrorBody.Message>>

\* (e *Error) String(): a nil receiver is dereferenced, which panics.
\* The result "<t>: <message>" is the pair of its two parts.
ErrorString(e) ==
    LET t == IF e[1].ErrorBody.Type = "invalid_request"
             THEN "Invalid Request" ELSE "Server Error"
    IN  <<t, ": ", e[1].ErrorBody.Message>>

\* ClientWithKey(key)
DefaultBaseURL == "https://api.pushbullet.com/v2/"

\* The *http.Client a client is built with, as a reference.
NewHTTPClient == "&http.Client{}"

ClientWithKey(key) ==
    [APIKey |-> key, BaseURL |-> DefaultBaseURL, HTTPClient |-> NewHTTPClient]

----------------------------------------------------------------------------
(* encoding/json as the code uses it.                                      *)

\* Go strings are byte sequences; a JSON text is Unicode.  encoding/json
\* writes, and reads, each byte that is not part of a valid UTF-8 encoding
\* as U+FFFD.  The strings of the model that are not valid UTF-8 (the byte
\* 0xff is written \xff), and what each of them becomes:
Coerced ==
    ("Build\\xffTest" :> "Build\\ufffdTest") @@ ("item\\xff" :> "item\\ufffd")

ToValidUTF8(s) == IF s \in DOMAIN Coerced THEN Coerced[s] ELSE s

\* json.Marshal of a Go string.
JString(s) == JStr(ToValidUTF8(s))

\* A []string written with the empty slice as null, as the nil slice is.
MarshalStrings_EmptyAsNull(sl) ==
    IF sl.isNil \/ Len(sl.elems) = 0 THEN JNull
    ELSE JArr([i \in 1..Len(sl.elems) |-> JString(sl.elems[i])])

\* A []string on the wire: null for the nil slice, an array otherwise.
MarshalStrings(sl) ==
    IF sl.isNil THEN JNull
    ELSE JArr([i \in 1..Len(sl.elems) |-> JString(sl.elems[i])])

\* json.Marshal of a PushMessage: every field is written under the name of
\* its tag (no tag option omits a field); the tag of ID is malformed, so
\* the field keeps its Go name.
MarshalPushMessage(p) ==
    JObj([ID |-> JString(p.ID),
          device_iden |-> JString(p.DeviceID), email |-> JString(p.Email),
          channel_tag |-> JString(p.ChannelTag), client_iden |-> JString(p.ClientID),
          type |-> JString(p.Type), title |-> JString(p.Title), body |-> JString(p.Body),
          url |-> JString(p.URL), name |-> JString(p.Name), address |-> JString(p.Address),
          items |-> MarshalStrings(p.Items),
          file_name |-> JString(p.FileName), file_type |-> JString(p.FileType),
          file_url |-> JString(p.FileURL),
          source_device_iden |-> JString(p.SourceDeviceID),
          created |-> JNum(p.Created), modified |-> JNum(p.Modified),
          active |-> JBool(p.Active), dismissed |-> JBool(p.Dismissed),
          sender_iden |-> JString(p.SenderID), sender_email |-> JString(p.SenderEmail),
          sender_email_normalized |-> JString(p.SenderEmailNormalized),
          receiver_iden |-> JString(p.ReceiverID),
          receiver_email |-> JString(p.ReceiverEmail),
          receiver_email_normalized |-> JString(p.ReceiverEmailNormalized)])

\* json.Marshal of a Preferences.
MarshalPreferences(p) ==
    JObj([onboarding |-> JObj([app |-> JBool(p.Onboarding.App),
                               friends |-> JBool(p.Onboarding.Friends),
                               extension |-> JBool(p.Onboarding.Extension)]),
          social |-> JBool(p.Social), cat |-> JString(p.Cat)])

\* json.Marshal of an ItemsList: its only field is unexported and is skipped.
MarshalItemsList(l) == JObj(NoMembers)

\* json.Marshal(data) for the payload types handed to makeCall.
Marshal(data) ==
    IF data.gotype = "PushMessage"
    THEN [err |-> NilErr, json |-> MarshalPushMessage(data.v)]
    ELSE IF data.gotype = "Preferences"
    THEN [err |-> NilErr, json |-> MarshalPreferences(data.v)]
    ELSE IF data.gotype = "ItemsList"
    THEN [err |-> NilErr, json |-> MarshalItemsList(data.v)]
    ELSE [err |-> Err("json: unsupported type"), json |-> JNull]

\* Go types: a basic type, a named struct, or a slice of one of these.
Basic(name) == [kind |-> "basic", name |-> name]

Struct(name) == [kind |-> "struct", name |-> name]

SliceOf(name) == [kind |-> "slice", name |-> name]

BasicNames == {"string", "float32", "int", "bool"}

\* A struct field: its JSON name (from the tag) and its type.
Field(key, type) == [key |-> key, type |-> type]

\* The struct declarations: Go field name |-> JSON name and type.
Schema(name) ==
    CASE name = "PushMessage" ->
           [ID |-> Field("ID", Basic("string")),
            DeviceID |-> Field("device_iden", Basic("string")),
            Email |-> Field("email", Basic("string")),
            ChannelTag |-> Field("channel_tag", Basic("string")),
            ClientID |-> Field("client_iden", Basic("string")),
            Type |-> Field("type", Basic("string")),
            Title |-> Field("title", Basic("string")),
            Body |-> Field("body", Basic("string")),
            URL |-> Field("url", Basic("string")),
            Name |-> Field("name", Basic("string")),
            Address |-> Field("address", Basic("string")),
            Items |-> Field("items", SliceOf("string")),
            FileName |-> Field("file_name", Basic("string")),
            FileType |-> Field("file_type", Basic("string")),
            FileURL |-> Field("file_url", Basic("string")),
            SourceDeviceID |-> Field("source_device_iden", Basic("string")),
            Created |-> Field("created", Basic("float32")),
            Modified |-> Field("modified", Basic("float32")),
            Active |-> Field("active", Basic("bool")),
            Dismissed |-> Field("dismissed", Basic("bool")),
            SenderID |-> Field("sender_iden", Basic("string")),
            SenderEmail |-> Field("sender_email", Basic("string")),
            SenderEmailNormalized |-> Field("sender_email_normalized", Basic("string")),
            ReceiverID |-> Field("receiver_iden", Basic("string")),
            ReceiverEmail |-> Field("receiver_email", Basic("string")),
            ReceiverEmailNormalized |-> Field("receiver_email_normalized", Basic("string"))]
      [] name = "PushList" ->
           [Pushes |-> Field("pushes", SliceOf("PushMessage"))]
      [] name = "Device" ->
           [ID |-> Field("iden", Basic("string")),
            PushToken |-> Field("push_token", Basic("string")),
            AppVersion |-> Field("app_version", Basic("int")),
            Fingerprint |-> Field("fingerprint", Basic("string")),
            Active |-> Field("active", Basic("bool")),
            Nickname |-> Field("nickname", Basic("string")),
            Manufacturer |-> Field("manufacturer", Basic("string")),
            Type |-> Field("type", Basic("string")),
            Created |-> Field("created", Basic("float32")),
            Modified |-> Field("modified", Basic("float32")),
            Model |-> Field("model", Basic("string")),
            Pushable |-> Field("pushable", Basic("bool"))]
      [] name = "DeviceList" ->
           [Devices |-> Field("devices", SliceOf("Device"))]
      [] name = "Contact" ->
           [ID |-> Field("iden", Basic("string")),
            Name |-> Field("name", Basic("string")),
            Created |-> Field("created", Basic("float32")),
            Modified |-> Field("modified", Basic("float32")),
            Email |-> Field("email", Basic("string")),
            EmailNormalized |-> Field("email_normalized", Basic("string")),
            Active |-> Field("active", Basic("bool"))]
      [] name = "ContactList" ->
           [Contacts |-> Field("contacts", SliceOf("Contact"))]
      [] name = "Subscription" ->
           [ID |-> Field("iden", Basic("string")),
            Created |-> Field("created", Basic("float32")),
            Modified |-> Field("modified", Basic("float32")),
            Active |-> Field("active", Basic("bool")),
            Channel |-> Field("channel", Struct("Channel"))]
      [] name = "SubscriptionList" ->
           [Subscriptions |-> Field("subscriptions", SliceOf("Subscription"))]
      [] name = "Channel" ->
           [ID |-> Field("iden", Basic("string")),
            Tag |-> Field("tag", Basic("string")),
            Name |-> Field("name", Basic("string")),
            Description |-> Field("description", Basic("string")),
            ImageURL |-> Field("image_url", Basic("string"))]
      [] name = "User" ->
           [ID |-> Field("iden", Basic("string")),
            Email |-> Field("email", Basic("string")),
            EmailNormalized |-> Field("email_normalized", Basic("string")),
            Created |-> Field("created", Basic("float32")),
            Modified |-> Field("modified", Basic("float32")),
            Name |-> Field("name", Basic("string")),
            ImageURL |-> Field("image_url", Basic("string")),
            Preferences |-> Field("preferences", Struct("Preferences"))]
      [] name = "Preferences" ->
           [Onboarding |-> Field("onboarding", Struct("Preferences.Onboarding")),
            Social |-> Field("social", Basic("bool")),
            Cat |-> Field("cat", Basic("string"))]
      [] name = "Preferences.Onboarding" ->
           [App |-> Field("app", Basic("bool")),
            Friends |-> Field("friends", Basic("bool")),
            Extension |-> Field("extension", Basic("bool"))]
      [] name = "Authorization" ->
           [FileType |-> Field("file_type", Basic("string")),
            FileName |-> Field("file_name", Basic("string")),
            FileURL |-> Field("file_url", Basic("string")),
            UploadURL |-> Field("upload_url", Basic("string")),
            Data |-> Field("data", Struct("Authorization.Data"))]
      [] name = "Error" ->
           [ErrorBody |-> Field("error", Struct("errorBody"))]
      [] name = "errorBody" ->
           [Message |-> Field("message", Basic("string")),
            Type |-> Field("type", Basic("string")),
            Cat |-> Field("cat", Basic("string"))]
      [] name = "Authorization.Data" ->
           [Awsaccesskeyid |-> Field("awsaccesskeyid", Basic("string")),
            Acl |-> Field("acl", Basic("string")),
            Key |-> Field("key", Basic("string")),
            Signature |-> Field("signature", Basic("string")),
            Policy |-> Field("policy", Basic("string")),
            ContentType |-> Field("content-type", Basic("string"))]

\* The type an element of a slice has.
ElemType(name) == IF name \in BasicNames THEN Basic(name) ELSE Struct(name)

\* The zero value of a type.
RECURSIVE Zero(_)
Zero(type) ==
    IF type.kind = "basic"
    THEN (IF type.name = "string" THEN "" ELSE IF type.name = "bool" THEN FALSE ELSE 0)
    ELSE IF type.kind = "slice" THEN NilSlice
    ELSE LET S == Schema(type.name)
         IN  [f \in DOMAIN S |-> Zero(S[f].type)]

\* Whether a JSON value is of the kind a Go type decodes from.
Fits(type, j) ==
    \/ type.kind = "struct" /\ j.t = "object"
    \/ type.kind = "slice" /\ j.t = "array"
    \/ type.kind = "basic" /\ type.name = "string" /\ j.t = "string"
    \/ type.kind = "basic" /\ type.name = "bool" /\ j.t = "bool"
    \/ type.kind = "basic" /\ type.name \in {"float32", "int"} /\ j.t = "number"

\* The outcome of decoding the parts of a value: an error if a part had
\* one, and the values of the parts.
Gather(ds) ==
    [err |-> IF \E k \in DOMAIN ds : ds[k].err # NilErr THEN ErrJSONType ELSE NilErr,
     v |-> [k \in DOMAIN ds |-> ds[k].v]]

SliceFrom(g) == [err |-> g.err, v |-> Slice(g.v)]

\* json.Unmarshal of one JSON value into a Go value cur of the given type.
\* null leaves a basic value or a struct as it is and makes a slice nil; a
\* JSON value of the wrong kind is a type error that leaves the value and
\* lets the decoding of the other members go on; members the struct does
\* not declare are skipped; the elements of an array are decoded into the
\* elements of a new slice.  The result is the error (if any) and the value.
RECURSIVE Decode(_, _, _)

\* A decoder that fills the slice from its last element to its first.
DecodeSlice_Reversed(et, arr, zero) ==
    SliceFrom(Gather([k \in 1..Len(arr) |-> Decode(et, arr[Len(arr) + 1 - k], zero)]))

DecodeSlice(et, arr, zero) ==
    SliceFrom(Gather([k \in 1..Len(arr) |-> Decode(et, arr[k], zero)]))

\* A decoder that takes a member missing from the object for an error.
DecodeStruct_Strict(S, obj, cur) ==
    Gather([f \in DOMAIN S |->
              IF S[f].key \in DOMAIN obj
              THEN Decode(S[f].type, obj[S[f].key], cur[f])
              ELSE [err |-> ErrJSONType, v |-> cur[f]]])

DecodeStruct(S, obj, cur) ==
    Gather([f \in DOMAIN S |->
              IF S[f].key \in DOMAIN obj
              THEN Decode(S[f].type, obj[S[f].key], cur[f])
              ELSE [err |-> NilErr, v |-> cur[f]]])

Decode(type, j, cur) ==
    IF j.t = "null"
    THEN [err |-> NilErr, v |-> IF type.kind = "slice" THEN NilSlice ELSE cur]
    ELSE IF ~Fits(type, j) THEN [err |-> ErrJSONType, v |-> cur]
    ELSE IF type.kind = "basic"
    THEN [err |-> NilErr,
          v |-> IF type.name = "string" THEN ToValidUTF8(j.v) ELSE j.v]
    ELSE IF type.kind = "slice"
    THEN DecodeSlice(ElemType(type.name), j.v, Zero(ElemType(type.name)))
    ELSE DecodeStruct(Schema(type.name), j.v, cur)

\* json.Unmarshal(body, &v) with v a struct: a text that is not JSON is
\* rejected before anything is stored.
Unmarshal(body, name, cur) ==
    IF body.t = "invalid json" THEN [err |-> ErrJSONSyntax, v |-> cur]
    ELSE Decode(Struct(name), body, cur)

\* A decoded struct behind a pointer.
Pointed(d) == [err |-> d.err, ptr |-> Ref(d.v)]

\* json.Unmarshal(responseBody, &apiError) with apiError a non-nil *Error:
\* a text that is not JSON is rejected before anything is stored; the JSON
\* null sets the pointer itself to nil; any other value is decoded into the
\* struct pointed to.
UnmarshalError(body, ptr) ==
    IF body.t = "invalid json" THEN [err |-> ErrJSONSyntax, ptr |-> ptr]
    ELSE IF body.t = "null" THEN [err |-> NilErr, ptr |-> Nil]
    ELSE Pointed(Decode(Struct("Error"), body, ptr[1]))

----------------------------------------------------------------------------
(* The request dispatcher, makeCall, and the form-encoded POST.            *)

StatusOK == 200

\* A base URL that url.Parse rejects: its port is not a number.
MalformedBaseURL == "https://api.pushbullet.com:v2/"

\* http.NewRequest parses c.BaseURL+call and fails when that does not parse.
NewRequestFails(base, callp) == base = MalformedBaseURL

\* What makeCall returns: (responseBody, apiError, err).
MakeCallResult(body, apiError, err) ==
    [responseBody |-> body, apiError |-> apiError, err |-> err]

\* makeCall from http.NewRequest to c.HTTPClient.Do(req), with the payload
\* serialized to m.
NewRequest(cl, method, callp, data, m) ==
    IF m.err # NilErr
    THEN [req |-> Nil, out |-> MakeCallResult(Nil, Nil, m.err)]
    ELSE IF NewRequestFails(cl.BaseURL, callp)
    THEN [req |-> Nil, out |-> MakeCallResult(Nil, Nil, ErrURLParse)]
    ELSE [req |-> Ref([method |-> method,
                       url |-> <<cl.BaseURL>> \o callp,
                       header |-> [Authorization |-> <<BasicAuth(cl.APIKey)>>,
                                   ContentType |-> <<"application/json">>],
                       body |-> IF data # Nil THEN Ref(m.json) ELSE Nil]),
          out |-> MakeCallResult(Nil, Nil, NilErr)]

\* makeCall that serializes the payload before it looks at the key.
MakeCallSend_MarshalFirst(cl, method, callp, data) ==
    IF data # Nil /\ Marshal(data[1]).err # NilErr
    THEN [req |-> Nil, out |-> MakeCallResult(Nil, Nil, Marshal(data[1]).err)]
    ELSE IF Len(cl.APIKey) = 0
    THEN [req |-> Nil, out |-> MakeCallResult(Nil, Nil, ErrMissingKey)]
    ELSE NewRequest(cl, method, callp, data,
                    IF data # Nil THEN Marshal(data[1])
                    ELSE [err |-> NilErr, json |-> JNull])

\* makeCall up to c.HTTPClient.Do(req): either it returns early (req is
\* Nil and out holds the return values) or it hands req to the transport.
MakeCallSend(cl, method, callp, data) ==
    IF Len(cl.APIKey) = 0
    THEN [req |-> Nil, out |-> MakeCallResult(Nil, Nil, ErrMissingKey)]
    ELSE NewRequest(cl, method, callp, data,
                    IF data # Nil THEN Marshal(data[1])
                    ELSE [err |-> NilErr, json |-> JNull])

\* makeCall that reports the status code whether or not the body decodes.
ErrorStatus_StatusOnly(o, u) ==
    MakeCallResult(Ref(o.body), u.ptr, ErrStatusCode(o.status))

\* makeCall on a response whose status is not 200, the body decoded to u.
ErrorStatus(o, u) ==
    IF u.err # NilErr
    THEN MakeCallResult(Ref(o.body), u.ptr, u.err)
    ELSE MakeCallResult(Ref(o.body), u.ptr, ErrStatusCode(o.status))

\* makeCall from the return of c.HTTPClient.Do(req) on: o is what the
\* transport answered.
MakeCallReceive(o) ==
    IF o.kind = "error" THEN MakeCallResult(Nil, Nil, ErrTransport)
    ELSE IF ~o.readOK THEN MakeCallResult(Nil, Nil, ErrRead)
    ELSE IF o.status # StatusOK
    THEN ErrorStatus(o, UnmarshalError(o.body, Ref(ZeroError)))
    ELSE MakeCallResult(Ref(o.body), Nil, NilErr)

\* The request c.HTTPClient.PostForm builds: a POST with a form-encoded
\* body and no other header.
PostFormRequest(cl, callp, values) ==
    [method |-> "POST",
     url |-> <<cl.BaseURL>> \o callp,
     header |-> [Authorization |-> <<>>,
                 ContentType |-> <<"application/x-www-form-urlencoded">>],
     body |-> Ref([t |-> "form", v |-> values])]

----------------------------------------------------------------------------
(* What the transport can answer.                                          *)

ErrorEnvelope(message, type, cat) ==
    JObj([error |-> JObj([message |-> JStr(message), type |-> JStr(type),
                          cat |-> JStr(cat)])])

\* A contact as the service lists it.
ContactJSON(iden, name) ==
    JObj([iden |-> JStr(iden), name |-> JStr(name), created |-> JNum(1399),
          modified |-> JNum(1400), email |-> JStr("ryanjoldenburg@gmail.com"),
          email_normalized |-> JStr("ryanjoldenburg@gmail.com"),
          active |-> JBool(TRUE)])

ContactsJSON(contacts) == JObj([contacts |-> JArr(contacts)])

Statuses == {200, 201, 401}

ResponseBodies ==
    {NotJSON, JNull, JObj(NoMembers), JArr(<<>>),
     ErrorEnvelope("m", "invalid_request", "c"),
     ErrorEnvelope("m", "server", "c"),
     ErrorEnvelope("n", "", "invalid_request"),
     ErrorEnvelope("m", "Invalid_Request", "c"),
     JObj([iden |-> JStr("id1"), name |-> JNum(5)]),
     ContactsJSON(<<ContactJSON("ubdcjAfszs0Smi", "Ryan Oldenburg")>>),
     ContactsJSON(<<ContactJSON("ubdcjAfszs0Smi", "Ryan Oldenburg"),
                    ContactJSON("id2", "Ann")>>)}

NoResponse == [kind |-> "none", status |-> 0, body |-> JNull, readOK |-> FALSE]

\* The transport fails, or it delivers a response whose body can be read
\* in full, or one whose body cannot.
Outcomes ==
    {[kind |-> "error", status |-> 0, body |-> JNull, readOK |-> FALSE]}
    \cup [kind : {"response"}, status : Statuses, body : ResponseBodies,
          readOK : {TRUE}]
    \cup [kind : {"response"}, status : Statuses, body : {JNull},
          readOK : {FALSE}]

----------------------------------------------------------------------------
(* The endpoint methods.  A method is described by what it does up to the  *)
(* hand-over of its request (or to an early return) and by the frame that  *)
(* says how it goes on when makeCall or PostForm comes back.               *)

\* What a method gives back to its caller: the error and, for the methods
\* that have one, the result value (Nil for the others).
Returned(err, result) == [err |-> err, result |-> result]

NoReturn == Returned(NilErr, Nil)

NoMakeCall == MakeCallResult(Nil, Nil, NilErr)

\* The state of a call that has ended: how it ended, what it returned and
\* what it logged.
Ended(how, r, lines) == [pc |-> how, ret |-> r, logs |-> lines]

NotEnded == Ended("waiting", NoReturn, <<>>)

\* How a method goes on after its request: through ("makeCall" or
\* "PostForm"), the text it logs on an error, whether the log statement
\* calls apiError.String(), the type it decodes the body into ("none" if
\* it decodes nothing) and the field of that type it returns ("" for the
\* whole value).
Frame(through, log, callsString, decode, pick) ==
    [through |-> through, log |-> log, callsString |-> callsString,
     decode |-> decode, pick |-> pick]

NoFrame == Frame("none", "", FALSE, "none", "")

\* The value a method with a result returns for a decoded (or zero) value.
Result(frame, v) ==
    IF frame.decode = "none" THEN Nil
    ELSE IF frame.pick = "" THEN Ref(v)
    ELSE Ref(v[frame.pick])

\* The return of a method that has decoded the body: return v, err.
Decoded(frame, d) == Ended("returned", Returned(d.err, Result(frame, d.v)), <<>>)

\* The return of a method with an error: return zero, err.
Failed(frame, err, lines) ==
    Ended("returned",
          Returned(err, IF frame.decode = "none" THEN Nil
                        ELSE Result(frame, Zero(Struct(frame.decode)))),
          lines)

\* The code of an endpoint method after makeCall has returned m:
\*     if err != nil { log.Println(...); return zero, err }
\*     err = json.Unmarshal(r, &v); return v, err
\* The arguments of log.Println are evaluated first: apiError.String() on a
\* nil apiError panics.  Handing the nil pointer itself to log.Println does
\* not (fmt prints <nil>).
AfterMakeCall(frame, m) ==
    IF m.err # NilErr THEN
        IF frame.callsString
        THEN IF m.apiError = Nil
             THEN Ended("panicked", NoReturn, <<>>)
             ELSE Failed(frame, m.err,
                         << <<frame.log, m.err, ErrorString(m.apiError)>> >>)
        ELSE Failed(frame, m.err, << <<frame.log, m.apiError, m.err>> >>)
    ELSE IF frame.decode = "none" THEN Ended("returned", NoReturn, <<>>)
    ELSE Decoded(frame, Unmarshal(m.responseBody[1], frame.decode,
                                  Zero(Struct(frame.decode))))

\* The code of CreateContact, UpdateContact and AuthorizeUpload after
\* PostForm has returned: the status of the response is not looked at.
AfterPostForm(frame, o) ==
    IF o.kind = "error" THEN Failed(frame, ErrTransport, <<>>)
    ELSE IF frame.decode = "none" THEN Ended("returned", NoReturn, <<>>)
    ELSE IF ~o.readOK THEN Failed(frame, ErrRead, <<>>)
    ELSE Decoded(frame, Unmarshal(o.body, frame.decode, Zero(Struct(frame.decode))))

\* A method that returns err before it calls makeCall.
ReturnEarly(err) ==
    [req |-> Nil, frame |-> NoFrame, mc |-> NoMakeCall,
     done |-> Ended("returned", Returned(err, Nil), <<>>)]

\* A method whose makeCall has come to s: returned early, or sent a request.
Dispatched(frame, s) ==
    IF s.req = Nil
    THEN [req |-> Nil, frame |-> frame, mc |-> s.out,
          done |-> AfterMakeCall(frame, s.out)]
    ELSE [req |-> s.req, frame |-> frame, mc |-> NoMakeCall, done |-> NotEnded]

\* A method that calls makeCall(method, call, data) and goes on by frame.
ThroughMakeCall(cl, method, callp, data, frame) ==
    Dispatched(frame, MakeCallSend(cl, method, callp, data))

\* A method that calls c.HTTPClient.PostForm(c.BaseURL+call, values):
\* PostForm fails before it sends when the URL does not parse.
ThroughPostForm(cl, callp, values, frame) ==
    IF NewRequestFails(cl.BaseURL, callp)
    THEN [req |-> Nil, frame |-> frame, mc |-> NoMakeCall,
          done |-> Failed(frame, ErrURLParse, <<>>)]
    ELSE [req |-> Ref(PostFormRequest(cl, callp, values)), frame |-> frame,
          mc |-> NoMakeCall, done |-> NotEnded]

\* A switch that takes every unknown keyword for "all".
SelectTarget_AnyKeyword(p, targetType, target) ==
    CASE targetType = "device" -> [err |-> NilErr, p |-> [p EXCEPT !.DeviceID = target]]
      [] targetType = "email" -> [err |-> NilErr, p |-> [p EXCEPT !.Email = target]]
      [] targetType = "channel" -> [err |-> NilErr, p |-> [p EXCEPT !.ChannelTag = target]]
      [] targetType = "client" -> [err |-> NilErr, p |-> [p EXCEPT !.ClientID = target]]
      [] OTHER -> [err |-> NilErr, p |-> p]

\* A switch whose client case falls into the device field.
SelectTarget_ClientAsDevice(p, targetType, target) ==
    CASE targetType = "device" -> [err |-> NilErr, p |-> [p EXCEPT !.DeviceID = target]]
      [] targetType = "email" -> [err |-> NilErr, p |-> [p EXCEPT !.Email = target]]
      [] targetType = "channel" -> [err |-> NilErr, p |-> [p EXCEPT !.ChannelTag = target]]
      [] targetType = "client" -> [err |-> NilErr, p |-> [p EXCEPT !.DeviceID = target]]
      [] OTHER -> IF targetType # "all"
                  THEN [err |-> ErrInvalidTarget, p |-> p]
                  ELSE [err |-> NilErr, p |-> p]

\* A switch that rejects a device, email, channel or client without a target.
SelectTarget_RejectEmpty(p, targetType, target) ==
    CASE targetType = "device" /\ target # "" ->
           [err |-> NilErr, p |-> [p EXCEPT !.DeviceID = target]]
      [] targetType = "email" /\ target # "" ->
           [err |-> NilErr, p |-> [p EXCEPT !.Email = target]]
      [] targetType = "channel" /\ target # "" ->
           [err |-> NilErr, p |-> [p EXCEPT !.ChannelTag = target]]
      [] targetType = "client" /\ target # "" ->
           [err |-> NilErr, p |-> [p EXCEPT !.ClientID = target]]
      [] OTHER -> IF targetType # "all"
                  THEN [err |-> ErrInvalidTarget, p |-> p]
                  ELSE [err |-> NilErr, p |-> p]

\* The switch on targetType that every Send...ToTarget method has.
SelectTarget(p, targetType, target) ==
    CASE targetType = "device" -> [err |-> NilErr, p |-> [p EXCEPT !.DeviceID = target]]
      [] targetType = "email" -> [err |-> NilErr, p |-> [p EXCEPT !.Email = target]]
      [] targetType = "channel" -> [err |-> NilErr, p |-> [p EXCEPT !.ChannelTag = target]]
      [] targetType = "client" -> [err |-> NilErr, p |-> [p EXCEPT !.ClientID = target]]
      [] OTHER -> IF targetType # "all"
                  THEN [err |-> ErrInvalidTarget, p |-> p]
                  ELSE [err |-> NilErr, p |-> p]

\* A Send...ToTarget method that looks at the API key before it looks at
\* the outcome of its switch.
PostPush_KeyFirst(cl, sel, log) ==
    IF Len(cl.APIKey) = 0 THEN ReturnEarly(ErrMissingKey)
    ELSE IF sel.err # NilErr THEN ReturnEarly(sel.err)
    ELSE ThroughMakeCall(cl, "POST", <<"pushes">>,
                         Ref([gotype |-> "PushMessage", v |-> sel.p]),
                         Frame("makeCall", log, TRUE, "none", ""))

\* A Send...ToTarget method after its switch: return the error of the
\* switch, or POST the push to "pushes", log and return the error if
\* there is one.
PostPush(cl, sel, log) ==
    IF sel.err # NilErr THEN ReturnEarly(sel.err)
    ELSE ThroughMakeCall(cl, "POST", <<"pushes">>,
                         Ref([gotype |-> "PushMessage", v |-> sel.p]),
                         Frame("makeCall", log, TRUE, "none", ""))

\* The common shape of the Send...ToTarget methods.
SendPush(cl, p, targetType, target, log) ==
    PostPush(cl, SelectTarget(p, targetType, target), log)

GetUser(cl) ==
    ThroughMakeCall(cl, "GET", <<"users/me">>, Nil,
                    Frame("makeCall", "Failed to get user:", TRUE, "User", ""))

SendNoteToTarget(cl, targetType, target, title, body) ==
    SendPush(cl, PushMessage([Type |-> "note", Title |-> title, Body |-> body]),
             targetType, target, "Failed to send note:")

SendNote(cl, title, body) == SendNoteToTarget(cl, "all", "", title, body)

SendLinkToTarget(cl, targetType, target, title, body, url) ==
    SendPush(cl, PushMessage([Type |-> "link", Title |-> title, Body |-> body,
                              URL |-> url]),
             targetType, target, "Failed to get user:")

SendLink(cl, title, body, url) == SendLinkToTarget(cl, "all", "", title, body, url)

\* An address push built with the fields of a link push.
SendAddressToTarget_AsLink(cl, targetType, target, title, name, address) ==
    SendPush(cl, PushMessage([Type |-> "address", Title |-> title, Body |-> name,
                              URL |-> address]),
             targetType, target, "Failed to send address:")

SendAddressToTarget(cl, targetType, target, title, name, address) ==
    SendPush(cl, PushMessage([Type |-> "address", Title |-> title, Name |-> name,
                              Address |-> address]),
             targetType, target, "Failed to send address:")

SendAddress(cl, title, name, address) ==
    SendLinkToTarget(cl, "all", "", title, name, address)

SendChecklistToTarget(cl, targetType, target, title, items) ==
    SendPush(cl, PushMessage([Type |-> "checklist", Title |-> title, Items |-> items]),
             targetType, target, "Failed to send checklist:")

SendChecklist(cl, title, items) == SendChecklistToTarget(cl, "all", "", title, items)

SendFileToTarget(cl, targetType, target, fileName, fileType, fileURL, body, items) ==
    SendPush(cl, PushMessage([Type |-> "file", FileName |-> fileName,
                              FileType |-> fileType, FileURL |-> fileURL,
                              Body |-> body]),
             targetType, target, "Failed to send file: ")

SendFile(cl, title, items) == SendChecklistToTarget(cl, "all", "", title, items)

GetDevices(cl) ==
    ThroughMakeCall(cl, "GET", <<"devices">>, Nil,
                    Frame("makeCall", "Failed to get devices: ", TRUE, "DeviceList", ""))

GetContacts(cl) ==
    ThroughMakeCall(cl, "GET", <<"contacts">>, Nil,
                    Frame("makeCall", "Failed to get contacts: ", TRUE, "ContactList", ""))

CreateContact(cl, name, email) ==
    ThroughPostForm(cl, <<"contacts">>, [name |-> name, email |-> email],
                    Frame("PostForm", "", FALSE, "none", ""))

UpdateContact(cl, contactID, name) ==
    ThroughPostForm(cl, <<"contacts/", contactID>>, [name |-> name],
                    Frame("PostForm", "", FALSE, "none", ""))

DeleteContact(cl, contactID) ==
    ThroughMakeCall(cl, "DELETE", <<"contacts/", contactID>>, Nil,
                    Frame("makeCall", "Failed to delete contact: ", TRUE, "none", ""))

SubscribeChannel(cl, channel) ==
    ThroughMakeCall(cl, "POST", <<"subscriptions">>, Nil,
                    Frame("makeCall", "Failed to add subscription: ", TRUE, "none", ""))

ListSubscriptions(cl) ==
    ThroughMakeCall(cl, "GET", <<"subscriptions">>, Nil,
                    Frame("makeCall", "Failed to add subscription: ", TRUE,
                          "SubscriptionList", ""))

UnsubscribeChannel(cl, channelID) ==
    ThroughMakeCall(cl, "DELETE", <<"subscriptions/", channelID>>, Nil,
                    Frame("makeCall", "Failed to unsubscribe channel: ", TRUE, "none", ""))

ChannelInfo(cl, channelTag) ==
    ThroughMakeCall(cl, "GET", <<"channel-info?tag=", channelTag>>, Nil,
                    Frame("makeCall", "Failed to get channel info: ", TRUE, "Channel", ""))

AuthorizeUpload(cl, fileName, fileType) ==
    ThroughPostForm(cl, <<"upload-request">>,
                    [file_name |-> fileName, file_type |-> fileType],
                    Frame("PostForm", "", FALSE, "Authorization", ""))

UpdatePreferences(cl, preferences) ==
    ThroughMakeCall(cl, "POST", <<"users/me">>,
                    Ref([gotype |-> "Preferences", v |-> preferences]),
                    Frame("makeCall", "Failed to update preferences: ", FALSE, "none", ""))

\* strconv.FormatFloat(float64(modifiedAfter), 'f', 4, 32) of a time given
\* in ten-thousandths of a second: the integer part and four decimals.
FormatFloat(t) == <<t \div 10000, ".", t % 10000>>

GetPushHistory(cl, modifiedAfter) ==
    ThroughMakeCall(cl, "GET", <<"pushes?modified_after=", FormatFloat(modifiedAfter)>>,
                    Nil,
                    Frame("makeCall", "Error getting push history: ", FALSE,
                          "PushList", "Pushes"))

DeletePush(cl, pushID) ==
    ThroughMakeCall(cl, "DELETE", <<"pushes/", pushID>>, Nil,
                    Frame("makeCall", "Failed to delete push: ", FALSE, "none", ""))

\* A dismissal sent with the verb of a deletion.
DismissPush_AsDelete(cl, ID) ==
    ThroughMakeCall(cl, "DELETE", <<"pushes/", ID>>, Nil,
                    Frame("makeCall", "Failed to dismiss push: ", FALSE, "none", ""))

DismissPush(cl, ID) ==
    ThroughMakeCall(cl, "GET", <<"pushes/", ID>>, Nil,
                    Frame("makeCall", "Failed to dismiss push: ", FALSE, "none", ""))

UpdateList(cl, pushID, list) ==
    ThroughMakeCall(cl, "POST", <<"pushes/", pushID>>,
                    Ref([gotype |-> "ItemsList", v |-> list]),
                    Frame("makeCall", "Failed to update list: ", FALSE, "none", ""))

----------------------------------------------------------------------------
(* The inputs the model draws from.                                        *)

\* The bytes of "apikey"; the API keys are its prefixes, the empty one included.
APIKeyBytes == <<97, 112, 105, 107, 101, 121>>

APIKeys == {SubSeq(APIKeyBytes, 1, n) : n \in 0..MaxKeyLen}

BaseURLs == {DefaultBaseURL, MalformedBaseURL}

TargetTypes == {"device", "email", "channel", "client", "all", "Device", "waffles"}

ValidTargetTypes == {"device", "email", "channel", "client", "all"}

Targets == {"", "_deviceid_"}

Titles == {"", "Build Test"}

ItemNames == <<"item1", "item2", "item3", "item4">>

ItemLists == {NilSlice} \cup {Slice(SubSeq(ItemNames, 1, n)) : n \in 0..MaxItems}

Idens == {"id1", "id2"}

PreferencesValues == {ZeroPreferences, [ZeroPreferences EXCEPT !.Social = TRUE]}

ItemsLists ==
    {[items |-> <<>>],
     [items |-> <<[Text |-> "item1", Checked |-> FALSE]>>],
     [items |-> <<[Text |-> "item1", Checked |-> TRUE]>>]}

Timestamps == {0, 15000}

Callers == {"c1", "c2"}

----------------------------------------------------------------------------
(* The state machine.                                                      *)

NoCall == [op |-> "none", args |-> <<>>, frame |-> NoFrame]

Init ==
    /\ client \in {[ClientWithKey(k) EXCEPT !.BaseURL = u] : k \in APIKeys, u \in BaseURLs}
    /\ pc = [c \in Callers |-> "idle"]
    /\ call = [c \in Callers |-> NoCall]
    /\ sent = [c \in Callers |-> <<>>]
    /\ resp = [c \in Callers |-> NoResponse]
    /\ mc = [c \in Callers |-> NoMakeCall]
    /\ ret = [c \in Callers |-> NoReturn]
    /\ logs = [c \in Callers |-> <<>>]
    /\ resBody = [c \in Callers |-> "none"]
    /\ parts = [c \in Callers |-> <<>>]

\* A method that keeps the URL of its request in the BaseURL of the client.
Invoke_KeepsURL(c, op, args, prog) ==
    /\ pc[c] = "idle"
    /\ call' = [call EXCEPT ![c] = [op |-> op, args |-> args, frame |-> prog.frame]]
    /\ resp' = [resp EXCEPT ![c] = NoResponse]
    /\ mc' = [mc EXCEPT ![c] = prog.mc]
    /\ sent' = [sent EXCEPT ![c] = prog.req]
    /\ pc' = [pc EXCEPT ![c] = prog.done.pc]
    /\ ret' = [ret EXCEPT ![c] = prog.done.ret]
    /\ logs' = [logs EXCEPT ![c] = prog.done.logs]
    /\ client' = [client EXCEPT !.BaseURL = "https://api.pushbullet.com/v2/pushes"]
    /\ UNCHANGED <<resBody, parts>>

\* Caller c invokes method op with args; prog is what the method does.
Invoke(c, op, args, prog) ==
    /\ pc[c] = "idle"
    /\ call' = [call EXCEPT ![c] = [op |-> op, args |-> args, frame |-> prog.frame]]
    /\ resp' = [resp EXCEPT ![c] = NoResponse]
    /\ mc' = [mc EXCEPT ![c] = prog.mc]
    /\ sent' = [sent EXCEPT ![c] = prog.req]
    /\ pc' = [pc EXCEPT ![c] = prog.done.pc]
    /\ ret' = [ret EXCEPT ![c] = prog.done.ret]
    /\ logs' = [logs EXCEPT ![c] = prog.done.logs]
    /\ UNCHANGED <<client, resBody, parts>>

CallGetUser(c) == Invoke(c, "GetUser", <<>>, GetUser(client))

CallSendNote(c) ==
    \E title \in Titles :
        Invoke(c, "SendNote", <<title, "body">>, SendNote(client, title, "body"))

CallSendNoteToTarget(c) ==
    \E targetType \in TargetTypes, target \in Targets, title \in Titles :
        Invoke(c, "SendNoteToTarget", <<targetType, target, title, "body">>,
               SendNoteToTarget(client, targetType, target, title, "body"))

CallSendLink(c) ==
    \E title \in Titles :
        Invoke(c, "SendLink", <<title, "body", "http://example.com">>,
               SendLink(client, title, "body", "http://example.com"))

CallSendLinkToTarget(c) ==
    \E targetType \in TargetTypes, target \in Targets, title \in Titles :
        Invoke(c, "SendLinkToTarget",
               <<targetType, target, title, "body", "http://example.com">>,
               SendLinkToTarget(client, targetType, target, title, "body",
                                "http://example.com"))

CallSendAddress(c) ==
    \E title \in Titles :
        Invoke(c, "SendAddress", <<title, "Place", "123 Main st.">>,
               SendAddress(client, title, "Place", "123 Main st."))

CallSendAddressToTarget(c) ==
    \E targetType \in TargetTypes, target \in Targets, title \in Titles :
        Invoke(c, "SendAddressToTarget",
               <<targetType, target, title, "Place", "123 Main st.">>,
               SendAddressToTarget(client, targetType, target, title, "Place",
                                   "123 Main st."))

CallSendChecklist(c) ==
    \E title \in Titles, items \in ItemLists :
        Invoke(c, "SendChecklist", <<title, items>>,
               SendChecklist(client, title, items))

CallSendChecklistToTarget(c) ==
    \E targetType \in TargetTypes, target \in Targets, title \in Titles,
       items \in ItemLists :
        Invoke(c, "SendChecklistToTarget", <<targetType, target, title, items>>,
               SendChecklistToTarget(client, targetType, target, title, items))

CallSendFile(c) ==
    \E title \in Titles, items \in ItemLists :
        Invoke(c, "SendFile", <<title, items>>, SendFile(client, title, items))

CallSendFileToTarget(c) ==
    \E targetType \in TargetTypes, target \in Targets, body \in {"", "body"},
       items \in ItemLists :
        Invoke(c, "SendFileToTarget",
               <<targetType, target, "a.png", "image/png", "http://f/a.png", body, items>>,
               SendFileToTarget(client, targetType, target, "a.png", "image/png",
                                "http://f/a.png", body, items))

CallGetDevices(c) == Invoke(c, "GetDevices", <<>>, GetDevices(client))

CallGetContacts(c) == Invoke(c, "GetContacts", <<>>, GetContacts(client))

CallCreateContact(c) ==
    \E name \in {"", "Ryan Oldenburg"} :
        Invoke(c, "CreateContact", <<name, "ryan@example.com">>,
               CreateContact(client, name, "ryan@example.com"))

CallUpdateContact(c) ==
    \E contactID \in Idens :
        Invoke(c, "UpdateContact", <<contactID, "Ryan Oldenburg">>,
               UpdateContact(client, contactID, "Ryan Oldenburg"))

CallDeleteContact(c) ==
    \E contactID \in Idens :
        Invoke(c, "DeleteContact", <<contactID>>, DeleteContact(client, contactID))

CallSubscribeChannel(c) ==
    \E channel \in Idens :
        Invoke(c, "SubscribeChannel", <<channel>>, SubscribeChannel(client, channel))

CallListSubscriptions(c) ==
    Invoke(c, "ListSubscriptions", <<>>, ListSubscriptions(client))

CallUnsubscribeChannel(c) ==
    \E channelID \in Idens :
        Invoke(c, "UnsubscribeChannel", <<channelID>>,
               UnsubscribeChannel(client, channelID))

CallChannelInfo(c) ==
    \E channelTag \in Idens :
        Invoke(c, "ChannelInfo", <<channelTag>>, ChannelInfo(client, channelTag))

CallAuthorizeUpload(c) ==
    \E fileName \in {"a.png", "b.txt"} :
        Invoke(c, "AuthorizeUpload", <<fileName, "image/png">>,
               AuthorizeUpload(client, fileName, "image/png"))

CallUpdatePreferences(c) ==
    \E preferences \in PreferencesValues :
        Invoke(c, "UpdatePreferences", <<preferences>>,
               UpdatePreferences(client, preferences))

CallGetPushHistory(c) ==
    \E modifiedAfter \in Timestamps :
        Invoke(c, "GetPushHistory", <<modifiedAfter>>,
               GetPushHistory(client, modifiedAfter))

CallDeletePush(c) ==
    \E pushID \in Idens :
        Invoke(c, "DeletePush", <<pushID>>, DeletePush(client, pushID))

CallDismissPush(c) ==
    \E ID \in Idens :
        Invoke(c, "DismissPush", <<ID>>, DismissPush(client, ID))

CallUpdateList(c) ==
    \E pushID \in Idens, list \in ItemsLists :
        Invoke(c, "UpdateList", <<pushID, list>>, UpdateList(client, pushID, list))

\* The call of caller c ends as e says.
End(c, e) ==
    /\ pc' = [pc EXCEPT ![c] = e.pc]
    /\ ret' = [ret EXCEPT ![c] = e.ret]
    /\ logs' = [logs EXCEPT ![c] = e.logs]

\* The body of the response when the method returns: there is none when
\* the transport failed; makeCall closes it as it returns (defer
\* res.Body.Close()); the methods that call PostForm never close it.
BodyAfter(through, o) ==
    IF o.kind = "error" THEN "none"
    ELSE IF through = "makeCall" THEN "closed"
    ELSE "open"

\* A call that hands its request to the transport once more when the
\* transport has failed.
Deliver_Retry(c) ==
    /\ pc[c] = "waiting"
    /\ \E o \in Outcomes : resp' = [resp EXCEPT ![c] = o]
    /\ mc' = [mc EXCEPT ![c] = IF call[c].frame.through = "makeCall"
                               THEN MakeCallReceive(resp'[c]) ELSE NoMakeCall]
    /\ IF resp'[c].kind = "error" /\ Len(sent[c]) < 2
       THEN /\ sent' = [sent EXCEPT ![c] = sent[c] \o sent[c]]
            /\ UNCHANGED <<pc, ret, logs>>
       ELSE /\ End(c, IF call[c].frame.through = "makeCall"
                      THEN AfterMakeCall(call[c].frame, mc'[c])
                      ELSE AfterPostForm(call[c].frame, resp'[c]))
            /\ UNCHANGED sent
    /\ resBody' = [resBody EXCEPT ![c] = BodyAfter(call[c].frame.through, resp'[c])]
    /\ UNCHANGED <<client, call, parts>>

\* A client that keeps the last response in one place for all its callers:
\* the method of c goes on with the response another caller has got, if
\* there is one, not with the response to its own request.
Deliver_SharedResponse(c) ==
    /\ pc[c] = "waiting"
    /\ \E o \in Outcomes : resp' = [resp EXCEPT ![c] = o]
    /\ mc' = [mc EXCEPT ![c] =
                 IF call[c].frame.through # "makeCall" THEN NoMakeCall
                 ELSE IF \E d \in Callers \ {c} : resp[d].kind # "none"
                 THEN MakeCallReceive(resp[CHOOSE d \in Callers \ {c} :
                                               resp[d].kind # "none"])
                 ELSE MakeCallReceive(resp'[c])]
    /\ End(c, IF call[c].frame.through = "makeCall"
              THEN AfterMakeCall(call[c].frame, mc'[c])
              ELSE AfterPostForm(call[c].frame, resp'[c]))
    /\ resBody' = [resBody EXCEPT ![c] = BodyAfter(call[c].frame.through, resp'[c])]
    /\ UNCHANGED <<client, call, sent, parts>>

\* The transport answers the request of caller c, and the method of c runs
\* to its end on that answer.
Deliver(c) ==
    /\ pc[c] = "waiting"
    /\ \E o \in Outcomes : resp' = [resp EXCEPT ![c] = o]
    /\ mc' = [mc EXCEPT ![c] = IF call[c].frame.through = "makeCall"
                               THEN MakeCallReceive(resp'[c]) ELSE NoMakeCall]
    /\ End(c, IF call[c].frame.through = "makeCall"
              THEN AfterMakeCall(call[c].frame, mc'[c])
              ELSE AfterPostForm(call[c].frame, resp'[c]))
    /\ resBody' = [resBody EXCEPT ![c] = BodyAfter(call[c].frame.through, resp'[c])]
    /\ UNCHANGED <<client, call, sent, parts>>

\* The caller of a method that has returned goes on; it may call again.
\* (A panic is not recovered: the caller stays where the panic left it.)
Continue(c) ==
    /\ pc[c] = "returned"
    /\ pc' = [pc EXCEPT ![c] = "idle"]
    /\ call' = [call EXCEPT ![c] = NoCall]
    /\ sent' = [sent EXCEPT ![c] = <<>>]
    /\ resp' = [resp EXCEPT ![c] = NoResponse]
    /\ mc' = [mc EXCEPT ![c] = NoMakeCall]
    /\ ret' = [ret EXCEPT ![c] = NoReturn]
    /\ logs' = [logs EXCEPT ![c] = <<>>]
    /\ resBody' = [resBody EXCEPT ![c] = "none"]
    /\ UNCHANGED <<client, parts>>

\* One caller uses the client.
Next ==
    \/ CallGetUser("c1")
    \/ CallSendNote("c1")
    \/ CallSendNoteToTarget("c1")
    \/ CallSendLink("c1")
    \/ CallSendLinkToTarget("c1")
    \/ CallSendAddress("c1")
    \/ CallSendAddressToTarget("c1")
    \/ CallSendChecklist("c1")
    \/ CallSendChecklistToTarget("c1")
    \/ CallSendFile("c1")
    \/ CallSendFileToTarget("c1")
    \/ CallGetDevices("c1")
    \/ CallGetContacts("c1")
    \/ CallCreateContact("c1")
    \/ CallUpdateContact("c1")
    \/ CallDeleteContact("c1")
    \/ CallSubscribeChannel("c1")
    \/ CallListSubscriptions("c1")
    \/ CallUnsubscribeChannel("c1")
    \/ CallChannelInfo("c1")
    \/ CallAuthorizeUpload("c1")
    \/ CallUpdatePreferences("c1")
    \/ CallGetPushHistory("c1")
    \/ CallDeletePush("c1")
    \/ CallDismissPush("c1")
    \/ CallUpdateList("c1")
    \/ Deliver("c1")
    \/ Continue("c1")

Spec == Init /\ [][Next]_vars

----------------------------------------------------------------------------
(* The JSON codec applied to a checklist push: json.Marshal, as makeCall   *)
(* applies it to the payload, followed by json.Unmarshal into a new        *)
(* PushMessage, as GetPushHistory applies it to the pushes it is sent.     *)
(* The push is call[c].args[1], the encoding is kept in sent[c] and the    *)
(* decoded push is the result in ret[c].                                   *)

RoundTripTitles == {"", "Build Test", "<b>", "Build\\xffTest"}

RoundTripItemNames == {"item1", "item2", "item\\xff"}

RoundTripItemLists ==
    {NilSlice} \cup
    {Slice(s) : s \in UNION {[1..n -> RoundTripItemNames] : n \in 0..MaxItems}}

RoundTripPushes ==
    {PushMessage([Type |-> "checklist", Title |-> title, Items |-> items]) :
        title \in RoundTripTitles, items \in RoundTripItemLists}

InitRoundTrip ==
    /\ client = ClientWithKey(SubSeq(APIKeyBytes, 1, 1))
    /\ pc = [c \in Callers |-> "idle"]
    /\ \E p \in RoundTripPushes :
          call = [c \in Callers |->
                    IF c = "c1"
                    THEN [op |-> "RoundTrip", args |-> <<p>>, frame |-> NoFrame]
                    ELSE NoCall]
    /\ sent = [c \in Callers |-> <<>>]
    /\ resp = [c \in Callers |-> NoResponse]
    /\ mc = [c \in Callers |-> NoMakeCall]
    /\ ret = [c \in Callers |-> NoReturn]
    /\ logs = [c \in Callers |-> <<>>]
    /\ resBody = [c \in Callers |-> "none"]
    /\ parts = [c \in Callers |-> <<>>]

\* payload, err = json.Marshal(data)
EncodePush(c) ==
    /\ pc[c] = "idle"
    /\ call[c].op = "RoundTrip"
    /\ sent' = [sent EXCEPT
                  ![c] = <<Marshal([gotype |-> "PushMessage", v |-> call[c].args[1]])>>]
    /\ pc' = [pc EXCEPT ![c] = "waiting"]
    /\ UNCHANGED <<client, call, resp, mc, ret, logs, resBody, parts>>

\* What a decoding gives back: the value decoded into, and the error.
RoundTripReturn(d) == Returned(d.err, Ref(d.v))

\* err = json.Unmarshal(payload, &p) with p a new PushMessage
DecodePush(c) ==
    /\ pc[c] = "waiting"
    /\ call[c].op = "RoundTrip"
    /\ ret' = [ret EXCEPT
                 ![c] = RoundTripReturn(Unmarshal(sent[c][1].json, "PushMessage",
                                                  ZeroPushMessage))]
    /\ pc' = [pc EXCEPT ![c] = "returned"]
    /\ UNCHANGED <<client, call, sent, resp, mc, logs, resBody, parts>>

NextRoundTrip == EncodePush("c1") \/ DecodePush("c1")

RoundTrip == InitRoundTrip /\ [][NextRoundTrip]_vars

----------------------------------------------------------------------------
(* uploadFileByPath(authorization, file): the file and the six data fields *)
(* of the authorization are written to a multipart form, part by part, and *)
(* the form is posted to authorization.UploadURL.                          *)
(* call[c].args is <<authorization, file, fault>>: file says whether the   *)
(* file at the path can be opened and read, and fault is the number of the *)
(* part the multipart writer fails to write (0: it writes them all).       *)

ErrOpen == Err("open: no such file or directory")

ErrCopy == Err("read: input/output error")

ErrWrite == Err("multipart: write failed")

\* fmt.Errorf("Bad Status Result: %s", res.Status)
ErrBadStatus(status) == [msg |-> "Bad Status Result: ", code |-> status]

\* A URL that url.Parse rejects.
MalformedUploadURL == "https://upload.example:s3/"

ZeroAuthorization == Zero(Struct("Authorization"))

UploadData ==
    {ZeroAuthorization.Data,
     [Awsaccesskeyid |-> "AKIA", Acl |-> "public-read", Key |-> "k/a.png",
      Signature |-> "sig", Policy |-> "pol", ContentType |-> "image/png"]}

Authorizations ==
    {[ZeroAuthorization EXCEPT !.UploadURL = u, !.Data = d] :
        u \in {"https://upload.example/", MalformedUploadURL}, d \in UploadData}

Files ==
    {[path |-> "a.png", state |-> st, content |-> "bytes of a.png"] :
        st \in {"ok", "missing", "unreadable"}}

\* The parts of the form, in the order the code writes them.
PartNames ==
    <<"file", "awsaccesskeyid", "acl", "key", "signature", "policy", "content-type">>

Faults == 0..Len(PartNames)

\* The value the code writes to the data field of a name.
DataValue(data, name) ==
    CASE name = "awsaccesskeyid" -> data.Awsaccesskeyid
      [] name = "acl" -> data.Acl
      [] name = "key" -> data.Key
      [] name = "signature" -> data.Signature
      [] name = "policy" -> data.Policy
      [] name = "content-type" -> data.ContentType

\* Part k of the form: w.CreateFormFile("file", file) with the bytes of the
\* file copied in, or w.CreateFormField(name) with the value written.
FormPart(k, authorization, file) ==
    IF k = 1
    THEN [name |-> "file", filename |-> file.path, value |-> file.content]
    ELSE [name |-> PartNames[k], filename |-> "",
          value |-> DataValue(authorization.Data, PartNames[k])]

\* http.NewRequest("POST", authorization.UploadURL, &b) with the header
\* Content-Type set to that of the form.
UploadRequest(authorization, form) ==
    [method |-> "POST",
     url |-> <<authorization.UploadURL>>,
     header |-> [Authorization |-> <<>>, ContentType |-> <<"multipart/form-data">>],
     body |-> Ref([t |-> "multipart", v |-> form])]

UploadOutcomes ==
    {[kind |-> "error", status |-> 0, body |-> JNull, readOK |-> FALSE]}
    \cup [kind : {"response"}, status : {200, 204, 299, 300, 401}, body : {JNull},
          readOK : {FALSE}]

\* An upload that takes every status but 200 for a failure.
UploadResult_OnlyOK(o) ==
    IF o.kind = "error" THEN ErrTransport
    ELSE IF o.status # StatusOK THEN ErrBadStatus(o.status)
    ELSE NilErr

\* The error uploadFileByPath returns after client.Do(req).
UploadResult(o) ==
    IF o.kind = "error" THEN ErrTransport
    ELSE IF o.status >= 300 THEN ErrBadStatus(o.status)
    ELSE NilErr

InitUpload ==
    /\ client = ClientWithKey(SubSeq(APIKeyBytes, 1, 1))
    /\ pc = [c \in Callers |-> "idle"]
    /\ \E authorization \in Authorizations, file \in Files, fault \in Faults :
          call = [c \in Callers |->
                    IF c = "c1"
                    THEN [op |-> "uploadFileByPath",
                          args |-> <<authorization, file, fault>>, frame |-> NoFrame]
                    ELSE NoCall]
    /\ sent = [c \in Callers |-> <<>>]
    /\ resp = [c \in Callers |-> NoResponse]
    /\ mc = [c \in Callers |-> NoMakeCall]
    /\ ret = [c \in Callers |-> NoReturn]
    /\ logs = [c \in Callers |-> <<>>]
    /\ resBody = [c \in Callers |-> "none"]
    /\ parts = [c \in Callers |-> <<>>]

\* uploadFileByPath returns err.
UploadReturns(c, err) ==
    /\ pc' = [pc EXCEPT ![c] = "returned"]
    /\ ret' = [ret EXCEPT ![c] = Returned(err, Nil)]

\* f, err := os.Open(file)
OpenFile(c) ==
    /\ pc[c] = "idle"
    /\ call[c].op = "uploadFileByPath"
    /\ IF call[c].args[2].state = "missing"
       THEN UploadReturns(c, ErrOpen)
       ELSE pc' = [pc EXCEPT ![c] = "writing"] /\ UNCHANGED ret
    /\ UNCHANGED <<client, call, sent, resp, mc, logs, resBody, parts>>

\* The next part is written to the form, or the writing fails and
\* uploadFileByPath returns the error.
WritePart(c) ==
    /\ pc[c] = "writing"
    /\ Len(parts[c]) < Len(PartNames)
    /\ IF call[c].args[3] = Len(parts[c]) + 1
       THEN UploadReturns(c, ErrWrite) /\ UNCHANGED parts
       ELSE IF Len(parts[c]) = 0 /\ call[c].args[2].state = "unreadable"
       THEN UploadReturns(c, ErrCopy) /\ UNCHANGED parts
       ELSE /\ parts' = [parts EXCEPT
                           ![c] = Append(parts[c],
                                         FormPart(Len(parts[c]) + 1, call[c].args[1],
                                                  call[c].args[2]))]
            /\ UNCHANGED <<pc, ret>>
    /\ UNCHANGED <<client, call, sent, resp, mc, logs, resBody>>

\* w.Close(), http.NewRequest and client.Do(req) up to the hand-over.
SubmitUpload(c) ==
    /\ pc[c] = "writing"
    /\ Len(parts[c]) = Len(PartNames)
    /\ IF call[c].args[1].UploadURL = MalformedUploadURL
       THEN UploadReturns(c, ErrURLParse) /\ UNCHANGED sent
       ELSE /\ sent' = [sent EXCEPT ![c] = <<UploadRequest(call[c].args[1], parts[c])>>]
            /\ pc' = [pc EXCEPT ![c] = "waiting"]
            /\ UNCHANGED ret
    /\ UNCHANGED <<client, call, resp, mc, logs, resBody, parts>>

\* client.Do(req) comes back; the status is checked and err returned.  The
\* body of the response is neither read nor closed.
ReceiveUpload(c) ==
    /\ pc[c] = "waiting"
    /\ call[c].op = "uploadFileByPath"
    /\ \E o \in UploadOutcomes : resp' = [resp EXCEPT ![c] = o]
    /\ UploadReturns(c, UploadResult(resp'[c]))
    /\ resBody' = [resBody EXCEPT ![c] = BodyAfter("Do", resp'[c])]
    /\ UNCHANGED <<client, call, sent, mc, logs, parts>>

NextUpload ==
    \/ OpenFile("c1")
    \/ WritePart("c1")
    \/ SubmitUpload("c1")
    \/ ReceiveUpload("c1")

Upload == InitUpload /\ [][NextUpload]_vars

----------------------------------------------------------------------------
(* Vocabulary of the properties.                                           *)

SendToTargetOps ==
    {"SendNoteToTarget", "SendLinkToTarget", "SendAddressToTarget",
     "SendChecklistToTarget", "SendFileToTarget"}

\* The call of caller c is over: it has returned or it has panicked.
Over(c) == pc[c] \in {"returned", "panicked"}

\* The call of caller c was answered with a response whose body was read.
Answered(c) == resp[c].kind = "response" /\ resp[c].readOK

\* The JSON object that is the payload of the request caller c has sent.
Payload(c) == sent[c][1].body[1].v

\* The text of a Go error value, as the tuple of its parts.
ErrorText(err) == IF err.code = 0 THEN <<err.msg>> ELSE <<err.msg, err.code>>

\* A well-formed error envelope: {"error": {"message", "type", "cat"}}, strings all.
IsEnvelope(body) ==
    /\ body.t = "object"
    /\ "error" \in DOMAIN body.v
    /\ body.v["error"].t = "object"
    /\ \A k \in {"message", "type", "cat"} :
          k \in DOMAIN body.v["error"].v /\ body.v["error"].v[k].t = "string"

\* The display string the specification gives an envelope.
Display(envelope) ==
    <<IF envelope.type.v = "invalid_request" THEN "Invalid Request" ELSE "Server Error",
      ": ", envelope.message.v>>

----------------------------------------------------------------------------
(* C1: on a client whose APIKey is empty, every method that would contact  *)
(* the service fails with the missing-credential error, and hands no       *)
(* request to the transport.  (A Send...ToTarget call with an unknown      *)
(* keyword never gets to contact the service and is left out.)             *)

WouldContact(c) ==
    /\ call[c].op # "none"
    /\ ~(call[c].op \in SendToTargetOps /\ call[c].args[1] \notin ValidTargetTypes)

C1_MissingCredential ==
    \A c \in Callers :
        (WouldContact(c) /\ Len(client.APIKey) = 0)
            => /\ pc[c] = "returned"
               /\ ret[c].err = ErrMissingKey
               /\ sent[c] = Nil

----------------------------------------------------------------------------
(* C2: a Send...ToTarget call whose keyword is not one of device, email,   *)
(* channel, client, all (compared exactly) returns the invalid-target      *)
(* error, and no request is handed to the transport.                       *)

C2_InvalidTarget ==
    \A c \in Callers :
        (call[c].op \in SendToTargetOps /\ call[c].args[1] \notin ValidTargetTypes)
            => /\ pc[c] = "returned"
               /\ ret[c].err = ErrInvalidTarget
               /\ sent[c] = Nil
               /\ resp[c] = NoResponse

C2_Witness ==
    \E c \in Callers :
        /\ call[c].op = "SendFileToTarget"
        /\ call[c].args[1] = "Device"
        /\ Len(client.APIKey) > 0
        /\ pc[c] = "returned"

----------------------------------------------------------------------------
(* C3: on every push a Send...ToTarget call sends, the selector field of   *)
(* the keyword (device_iden, email, channel_tag, client_iden) equals the   *)
(* target and the other three are empty; with keyword all the four are     *)
(* empty.  So at most one selector field is populated.                     *)

Selectors == {"device_iden", "email", "channel_tag", "client_iden"}

SelectorOf(targetType) ==
    CASE targetType = "device" -> "device_iden"
      [] targetType = "email" -> "email"
      [] targetType = "channel" -> "channel_tag"
      [] targetType = "client" -> "client_iden"
      [] OTHER -> "none"

SelectorsAre(obj, targetType, target) ==
    /\ \A k \in Selectors :
          obj[k] = JStr(IF k = SelectorOf(targetType) THEN target ELSE "")
    /\ Cardinality({k \in Selectors : obj[k] # JStr("")}) <= 1

C3_Selectors ==
    \A c \in Callers :
        (call[c].op \in SendToTargetOps /\ sent[c] # Nil)
            => SelectorsAre(Payload(c), call[c].args[1], call[c].args[2])

C3_Witness ==
    \E c \in Callers :
        /\ call[c].op = "SendLinkToTarget"
        /\ call[c].args[1] = "client"
        /\ call[c].args[2] = "_deviceid_"
        /\ sent[c] # Nil
        /\ Payload(c).client_iden = JStr("_deviceid_")

----------------------------------------------------------------------------
(* C4: when a method that goes through makeCall gets a response whose      *)
(* status is not 200 and whose body is a well-formed error envelope, the   *)
(* error value it returns to its caller is an API error whose display      *)
(* string is "Invalid Request: <message>" for the type invalid_request and *)
(* "Server Error: <message>" for any other type.                           *)

GotEnvelope(c) ==
    /\ call[c].frame.through = "makeCall"
    /\ Over(c)
    /\ Answered(c)
    /\ resp[c].status # StatusOK
    /\ IsEnvelope(resp[c].body)

Carries(apiError, envelope) ==
    /\ apiError # Nil
    /\ apiError[1].ErrorBody.Message = envelope.message.v
    /\ apiError[1].ErrorBody.Type = envelope.type.v
    /\ apiError[1].ErrorBody.Cat = envelope.cat.v
    /\ ErrorString(apiError) = Display(envelope)

----------------------------------------------------------------------------
(* C5: whatever makes a call fail (an empty API key, a payload that does   *)
(* not serialize, a transport failure, a response whose status is not 200, *)
(* a body that does not decode), the call ends by returning a non-nil      *)
(* error; no call ends in a panic.                                         *)

FailureCause(c) ==
    \/ Len(client.APIKey) = 0 /\ call[c].frame.through = "makeCall"
    \/ resp[c].kind = "error"
    \/ resp[c].kind = "response" /\ ~resp[c].readOK /\ call[c].frame.decode # "none"
    \/ Answered(c) /\ resp[c].status # StatusOK
    \/ Answered(c) /\ resp[c].body = NotJSON /\ call[c].frame.decode # "none"

C5_ErrorsAreReturned ==
    \A c \in Callers :
        /\ pc[c] # "panicked"
        /\ (pc[c] = "returned" /\ FailureCause(c)) => ret[c].err # NilErr

----------------------------------------------------------------------------
(* C6: when the status of the response is not 200 and the body is not      *)
(* JSON, a method that goes through makeCall returns the decode failure:   *)
(* not the status-code error, and not success.                             *)

GotGarbage(c) ==
    /\ call[c].frame.through = "makeCall"
    /\ Over(c)
    /\ Answered(c)
    /\ resp[c].status # StatusOK
    /\ resp[c].body = NotJSON

C6_DecodeFailureReturned ==
    \A c \in Callers :
        GotGarbage(c) => pc[c] = "returned" /\ ret[c].err = ErrJSONSyntax

C6_Witness ==
    \E c \in Callers :
        /\ GotGarbage(c)
        /\ call[c].op = "SendChecklistToTarget"
        /\ resp[c].status = 401
        /\ ret[c].err = ErrJSONSyntax

----------------------------------------------------------------------------
(* C7: with a non-empty API key and a response delivered, makeCall returns *)
(* a nil error, and the bytes of the body unchanged, exactly when the      *)
(* status is 200; for every other status, 201 included, its error is not   *)
(* nil.  So SendNote, SendLink, SendChecklist and DeletePush return nil on *)
(* a 200 response and a non-nil error on a 401 response.                   *)

C7_Consequence ==
    {"SendNote", "SendLink", "SendChecklist", "DeletePush"}

C7_OnlyOKSucceeds ==
    \A c \in Callers :
        (call[c].frame.through = "makeCall" /\ Over(c) /\ Answered(c))
            => /\ mc[c].err = NilErr <=> resp[c].status = StatusOK
               /\ resp[c].status = StatusOK => mc[c].responseBody = Ref(resp[c].body)
               /\ (call[c].op \in C7_Consequence /\ resp[c].status = StatusOK)
                     => pc[c] = "returned" /\ ret[c].err = NilErr
               /\ (call[c].op \in C7_Consequence /\ resp[c].status = 401)
                     => pc[c] = "returned" /\ ret[c].err # NilErr

----------------------------------------------------------------------------
(* C8: each "to all devices" form sends the request the target form of the *)
(* same push subtype sends with keyword all: SendNote, SendLink and        *)
(* SendChecklist do, SendAddress(title, name, address) sends a push of     *)
(* type address with Title, Name and Address set, and SendFile sends a     *)
(* push of type file.                                                      *)

C8_SameAsTargetAll ==
    \A c \in Callers :
        (sent[c] # Nil)
            => /\ call[c].op = "SendNote"
                    => sent[c] = SendNoteToTarget(client, "all", "", call[c].args[1],
                                                  call[c].args[2]).req
               /\ call[c].op = "SendLink"
                    => sent[c] = SendLinkToTarget(client, "all", "", call[c].args[1],
                                                  call[c].args[2], call[c].args[3]).req
               /\ call[c].op = "SendChecklist"
                    => sent[c] = SendChecklistToTarget(client, "all", "", call[c].args[1],
                                                       call[c].args[2]).req
               /\ call[c].op = "SendAddress"
                    => sent[c] = SendAddressToTarget(client, "all", "", call[c].args[1],
                                                     call[c].args[2], call[c].args[3]).req
               /\ call[c].op = "SendFile" => Payload(c).type = JStr("file")

----------------------------------------------------------------------------
(* C9: a Send...ToTarget call with a valid keyword sends one POST to       *)
(* "pushes" whose payload has the type of its subtype and the content      *)
(* fields of that subtype set from the arguments, every other content      *)
(* field empty: note title+body, link title+body+url, address              *)
(* title+name+address, checklist title+items, file                         *)
(* file_name+file_type+file_url+body.  (No request leaves a client whose   *)
(* API key is empty or whose base URL does not parse.)                     *)

\* The items of a checklist as they are on the wire.
WireItems(items) ==
    IF items.isNil THEN JNull
    ELSE JArr([i \in 1..Len(items.elems) |-> JStr(items.elems[i])])

Content(type, title, body, url, name, address, items, fileName, fileType, fileURL) ==
    [type |-> JStr(type), title |-> JStr(title), body |-> JStr(body),
     url |-> JStr(url), name |-> JStr(name), address |-> JStr(address),
     items |-> items, file_name |-> JStr(fileName), file_type |-> JStr(fileType),
     file_url |-> JStr(fileURL)]

\* The content the specification gives the push of a call.
ContentOf(op, a) ==
    CASE op = "SendNoteToTarget" ->
           Content("note", a[3], a[4], "", "", "", JNull, "", "", "")
      [] op = "SendLinkToTarget" ->
           Content("link", a[3], a[4], a[5], "", "", JNull, "", "", "")
      [] op = "SendAddressToTarget" ->
           Content("address", a[3], "", "", a[4], a[5], JNull, "", "", "")
      [] op = "SendChecklistToTarget" ->
           Content("checklist", a[3], "", "", "", "", WireItems(a[4]), "", "", "")
      [] op = "SendFileToTarget" ->
           Content("file", "", a[6], "", "", "", JNull, a[3], a[4], a[5])

HasContent(obj, content) == \A k \in DOMAIN content : obj[k] = content[k]

C9_PushContent ==
    \A c \in Callers :
        (call[c].op \in SendToTargetOps /\ call[c].args[1] \in ValidTargetTypes)
            => /\ (Len(client.APIKey) > 0 /\ client.BaseURL # MalformedBaseURL)
                     => Len(sent[c]) = 1
               /\ sent[c] # Nil
                     => /\ sent[c][1].method = "POST"
                        /\ sent[c][1].url = <<client.BaseURL, "pushes">>
                        /\ HasContent(Payload(c), ContentOf(call[c].op, call[c].args))

C9_Witness ==
    \E c \in Callers :
        /\ call[c].op = "SendAddressToTarget"
        /\ call[c].args[1] = "email"
        /\ pc[c] = "waiting"
        /\ Payload(c).name = JStr("Place")
        /\ Payload(c).address = JStr("123 Main st.")

----------------------------------------------------------------------------
(* C10: every request a Client method sends carries an Authorization       *)
(* header that is "Basic " followed by the base64 encoding of the API key  *)
(* and a colon; the form-encoded requests of CreateContact, UpdateContact  *)
(* and AuthorizeUpload carry it as the JSON ones do.                       *)

C10_BasicAuthOnEveryRequest ==
    \A c \in Callers :
        sent[c] # Nil
            => sent[c][1].header.Authorization = <<BasicAuth(client.APIKey)>>

----------------------------------------------------------------------------
(* C11: CreateContact, UpdateContact and AuthorizeUpload return a non-nil  *)
(* error whenever the service answers with a status other than 200; none   *)
(* of them reports success (a nil error, or an Authorization that is       *)
(* populated) for a request the service rejected.                          *)

Rejected(c) ==
    /\ call[c].frame.through = "PostForm"
    /\ Over(c)
    /\ resp[c].kind = "response"
    /\ resp[c].status # StatusOK

C11_FormPostsReportRejection ==
    \A c \in Callers :
        Rejected(c)
            => /\ pc[c] = "returned"
               /\ ret[c].err # NilErr
               /\ call[c].op = "AuthorizeUpload"
                     => ret[c].result = Ref(Zero(Struct("Authorization")))

----------------------------------------------------------------------------
(* C12: a call of a Client method hands at most one request to the         *)
(* transport, and once the transport has failed the call is over (it has   *)
(* returned or panicked) with that one request sent: there is no retry.    *)

----------------------------------------------------------------------------
(* C13: in the JSON payload of an outgoing push, a PushMessage field the   *)
(* send operation did not set does not appear as a key: the payload has    *)
(* the content keys of its push type, the selector key of its target if    *)
(* there is one, and nothing else (no empty selector, no content field of  *)
(* another type, no response-only field).                                  *)

PushOps ==
    SendToTargetOps \cup {"SendNote", "SendLink", "SendAddress", "SendChecklist",
                          "SendFile"}

ContentKeys(type) ==
    CASE type = "note" -> {"type", "title", "body"}
      [] type = "link" -> {"type", "title", "body", "url"}
      [] type = "address" -> {"type", "title", "name", "address"}
      [] type = "checklist" -> {"type", "title", "items"}
      [] type = "file" -> {"type", "file_name", "file_type", "file_url", "body"}
      [] OTHER -> {"type"}

UsedSelectors(obj) == {k \in Selectors \cap DOMAIN obj : obj[k] # JStr("")}

C13_UnusedFieldsOmitted ==
    \A c \in Callers :
        (call[c].op \in PushOps /\ sent[c] # Nil)
            => DOMAIN Payload(c) \subseteq
                   ContentKeys(Payload(c).type.v) \cup UsedSelectors(Payload(c))

----------------------------------------------------------------------------
(* C14: the request SubscribeChannel(channel) sends is a POST to           *)
(* "subscriptions" that names the channel given by the caller, in its URL  *)
(* or in a member of its JSON payload; so calls with different channels    *)
(* send different requests.                                                *)

Mentions(req, tag) ==
    \/ \E i \in 1..Len(req.url) : req.url[i] = tag
    \/ /\ req.body # Nil
       /\ req.body[1].t = "object"
       /\ \E k \in DOMAIN req.body[1].v : req.body[1].v[k] = JStr(tag)

C14_SubscribeNamesChannel ==
    \A c \in Callers :
        (call[c].op = "SubscribeChannel" /\ sent[c] # Nil)
            => /\ sent[c][1].method = "POST"
               /\ sent[c][1].url[2] = "subscriptions"
               /\ Mentions(sent[c][1], call[c].args[1])

----------------------------------------------------------------------------
(* C15: UpdateList(pushID, list) sends a POST to pushes/<pushID> whose     *)
(* JSON payload holds the items of the list, the text and the checked flag *)
(* of every item, in order; so different lists give different payloads.    *)

WireItem(item) == JObj([text |-> JStr(item.Text), checked |-> JBool(item.Checked)])

WireItemsList(list) ==
    JArr([i \in 1..Len(list.items) |-> WireItem(list.items[i])])

C15_UpdateListSendsItems ==
    \A c \in Callers :
        (call[c].op = "UpdateList" /\ sent[c] # Nil)
            => /\ sent[c][1].method = "POST"
               /\ sent[c][1].url = <<client.BaseURL, "pushes/", call[c].args[1]>>
               /\ sent[c][1].body # Nil
               /\ "items" \in DOMAIN Payload(c)
               /\ Payload(c)["items"] = WireItemsList(call[c].args[2])

----------------------------------------------------------------------------
(* C16: DismissPush(id) issues one request, a GET to pushes/<id> without a *)
(* payload, and DeletePush(id) issues one request, a DELETE to             *)
(* pushes/<id>; each returns nil when the response has status 200.  (No    *)
(* request leaves a client whose API key is empty or whose base URL does   *)
(* not parse, and a response counts once its body has been read.)          *)

C16_Ops == {"DismissPush", "DeletePush"}

C16_Verb(op) == IF op = "DismissPush" THEN "GET" ELSE "DELETE"

C16_DismissAndDelete ==
    \A c \in Callers :
        call[c].op \in C16_Ops
            => /\ Len(sent[c]) <= 1
               /\ (Len(client.APIKey) > 0 /\ client.BaseURL # MalformedBaseURL)
                     => Len(sent[c]) = 1
               /\ sent[c] # Nil
                     => /\ sent[c][1].method = C16_Verb(call[c].op)
                        /\ sent[c][1].url = <<client.BaseURL, "pushes/", call[c].args[1]>>
                        /\ call[c].op = "DismissPush" => sent[c][1].body = Nil
               /\ (Over(c) /\ Answered(c) /\ resp[c].status = StatusOK)
                     => pc[c] = "returned" /\ ret[c].err = NilErr

C16_Witness ==
    \E c \in Callers :
        /\ call[c].op = "DismissPush"
        /\ call[c].args = <<"id2">>
        /\ sent[c] # Nil
        /\ sent[c][1].method = "GET"
        /\ Answered(c)
        /\ resp[c].status = StatusOK
        /\ pc[c] = "returned"
        /\ ret[c].err = NilErr

----------------------------------------------------------------------------
(* C17: Error.String() is "Invalid Request: <message>" exactly when the    *)
(* type of the envelope is invalid_request, and "Server Error: <message>"  *)
(* for every other type, the empty one included; the result is a function  *)
(* of type and message alone, whatever the cat field holds.  Checked on    *)
(* the string every failing call logs for the API error it was handed.     *)

\* The call of caller c has logged apiError.String().
LoggedString(c) ==
    /\ pc[c] = "returned"
    /\ call[c].frame.callsString
    /\ mc[c].err # NilErr
    /\ mc[c].apiError # Nil

C17_Expected(body) ==
    <<IF body.Type = "invalid_request" THEN "Invalid Request" ELSE "Server Error",
      ": ", body.Message>>

C17_ErrorString ==
    \A c \in Callers :
        LoggedString(c)
            => /\ Len(logs[c]) = 1
               /\ logs[c][1][3] = C17_Expected(mc[c].apiError[1].ErrorBody)

C17_Witness ==
    \E c \in Callers :
        /\ LoggedString(c)
        /\ mc[c].apiError[1].ErrorBody = [Message |-> "n", Type |-> "", Cat |-> "invalid_request"]
        /\ logs[c][1][3] = <<"Server Error", ": ", "n">>

----------------------------------------------------------------------------
(* C18: GetContacts against a 200 response whose body lists contacts       *)
(* returns a nil error and a ContactList that holds exactly those          *)
(* contacts: as many, in the same order, each with its name (and its       *)
(* identifier) unchanged; one contact in the body gives one element.       *)

ListsContacts(body) ==
    /\ body.t = "object"
    /\ "contacts" \in DOMAIN body.v
    /\ body.v["contacts"].t = "array"

GotContacts(c) ==
    /\ call[c].op = "GetContacts"
    /\ Over(c)
    /\ Answered(c)
    /\ resp[c].status = StatusOK
    /\ ListsContacts(resp[c].body)

SameContacts(list, arr) ==
    /\ ~list.Contacts.isNil
    /\ Len(list.Contacts.elems) = Len(arr)
    /\ \A i \in 1..Len(arr) :
          /\ list.Contacts.elems[i].Name = arr[i].v["name"].v
          /\ list.Contacts.elems[i].ID = arr[i].v["iden"].v

C18_ContactsAsListed ==
    \A c \in Callers :
        GotContacts(c)
            => /\ pc[c] = "returned"
               /\ ret[c].err = NilErr
               /\ ret[c].result # Nil
               /\ SameContacts(ret[c].result[1], resp[c].body.v["contacts"].v)

C18_Witness ==
    \E c \in Callers :
        /\ GotContacts(c)
        /\ Len(resp[c].body.v["contacts"].v) = 2
        /\ ret[c].result[1].Contacts.elems[1].Name = "Ryan Oldenburg"
        /\ ret[c].result[1].Contacts.elems[2].Name = "Ann"

----------------------------------------------------------------------------
(* C19: for GetUser, GetDevices, GetContacts, ListSubscriptions,           *)
(* ChannelInfo and GetPushHistory, a response with status 200 and body {}  *)
(* gives a nil error and a zero-valued result: a list whose slice is nil   *)
(* (no elements), a record all of whose fields are zero.                   *)

C19_Ops ==
    {"GetUser", "GetDevices", "GetContacts", "ListSubscriptions", "ChannelInfo",
     "GetPushHistory"}

C19_ZeroResult(op) ==
    CASE op = "GetUser" -> Zero(Struct("User"))
      [] op = "GetDevices" -> [Devices |-> NilSlice]
      [] op = "GetContacts" -> [Contacts |-> NilSlice]
      [] op = "ListSubscriptions" -> [Subscriptions |-> NilSlice]
      [] op = "ChannelInfo" ->
           [ID |-> "", Tag |-> "", Name |-> "", Description |-> "", ImageURL |-> ""]
      [] op = "GetPushHistory" -> NilSlice

GotEmptyObject(c) ==
    /\ call[c].op \in C19_Ops
    /\ Over(c)
    /\ Answered(c)
    /\ resp[c].status = StatusOK
    /\ resp[c].body = JObj(NoMembers)

C19_EmptyObjectGivesZero ==
    \A c \in Callers :
        GotEmptyObject(c)
            => /\ pc[c] = "returned"
               /\ ret[c].err = NilErr
               /\ ret[c].result = Ref(C19_ZeroResult(call[c].op))

C19_Witness ==
    \E c \in Callers :
        /\ GotEmptyObject(c)
        /\ call[c].op = "GetPushHistory"
        /\ ret[c].err = NilErr
        /\ ret[c].result = Ref(NilSlice)

----------------------------------------------------------------------------
(* C20: encoding a PushMessage of type checklist with a title and an items *)
(* list to JSON, and decoding that JSON into a PushMessage, gives an equal *)
(* title and an equal items list (the same elements in the same order),    *)
(* for every title and every items list.                                   *)

RoundTripped(c) == call[c].op = "RoundTrip" /\ pc[c] = "returned"

C20_RoundTrip ==
    \A c \in Callers :
        RoundTripped(c)
            => /\ ret[c].err = NilErr
               /\ ret[c].result[1].Title = call[c].args[1].Title
               /\ ret[c].result[1].Items.elems = call[c].args[1].Items.elems

(* C20, as the code has it: the title and the items list come back equal   *)
(* (a nil list nil, an empty list empty) for every title and items list    *)
(* whose strings are valid UTF-8; the decoding never fails.                *)

ValidUTF8(s) == s \notin DOMAIN Coerced

AllValidUTF8(p) ==
    /\ ValidUTF8(p.Title)
    /\ \A i \in 1..Len(p.Items.elems) : ValidUTF8(p.Items.elems[i])

C20_RoundTripValidUTF8 ==
    \A c \in Callers :
        RoundTripped(c)
            => /\ ret[c].err = NilErr
               /\ AllValidUTF8(call[c].args[1])
                     => /\ ret[c].result[1].Title = call[c].args[1].Title
                        /\ ret[c].result[1].Items = call[c].args[1].Items

C20_Witness ==
    \E c \in Callers :
        /\ RoundTripped(c)
        /\ call[c].args[1].Title = "Build Test"
        /\ call[c].args[1].Items = Slice(<<"item1", "item2">>)
        /\ ret[c].result[1].Title = "Build Test"
        /\ ret[c].result[1].Items = Slice(<<"item1", "item2">>)

----------------------------------------------------------------------------
(* C21: no Client method writes log output of its own: on success and on   *)
(* every failure a call logs nothing, its only effects being the request   *)
(* it sends and the values it returns.                                     *)

C21_NoLogOutput ==
    \A c \in Callers : logs[c] = <<>>

----------------------------------------------------------------------------
(* C22: no Client method changes the client: in every step of every        *)
(* sequence of calls, successful or failing, APIKey, BaseURL and the       *)
(* HTTPClient reference keep the values the client was constructed with.   *)

C22_ClientUnchanged ==
    [][client' = client]_vars

C22_Witness ==
    \E c \in Callers :
        /\ client = ClientWithKey(<<97>>)
        /\ call[c].op = "UpdatePreferences"
        /\ pc[c] = "returned"
        /\ ret[c].err = ErrStatusCode(401)

----------------------------------------------------------------------------
(* C27: in every Send...ToTarget method the check of the target keyword    *)
(* comes before the check of the API key: with an unrecognized keyword the *)
(* call returns the invalid-target error whether or not the API key is     *)
(* empty (and makeCall is never entered), and the missing-credential error *)
(* is produced only for a recognized keyword.                              *)

C27_KeywordBeforeKey ==
    \A c \in Callers :
        call[c].op \in SendToTargetOps
            => /\ call[c].args[1] \notin ValidTargetTypes
                     => /\ pc[c] = "returned"
                        /\ ret[c].err = ErrInvalidTarget
                        /\ mc[c] = NoMakeCall
               /\ (mc[c].err = ErrMissingKey \/ ret[c].err = ErrMissingKey)
                     => call[c].args[1] \in ValidTargetTypes

C27_Witness ==
    \E c \in Callers :
        /\ call[c].op = "SendChecklistToTarget"
        /\ call[c].args[1] = "waffles"
        /\ Len(client.APIKey) = 0
        /\ pc[c] = "returned"
        /\ ret[c].err = ErrInvalidTarget

----------------------------------------------------------------------------
(* C28: the apiError makeCall returns is nil on every failure that comes   *)
(* before a response status is looked at (empty key, serialization,        *)
(* request construction, transport, body read) and on status 200; when it  *)
(* is not nil the status was not 200 and the error is not nil either.  So  *)
(* every caller that dereferences apiError on its error path does so only  *)
(* when apiError is not nil.                                               *)

\* makeCall has returned to the method caller c invoked.
MakeCallReturned(c) == call[c].frame.through = "makeCall" /\ Over(c)

C28_APIErrorNilness ==
    \A c \in Callers :
        MakeCallReturned(c)
            => /\ (~Answered(c) \/ resp[c].status = StatusOK) => mc[c].apiError = Nil
               /\ mc[c].apiError # Nil
                     => Answered(c) /\ resp[c].status # StatusOK /\ mc[c].err # NilErr
               /\ (call[c].frame.callsString /\ mc[c].err # NilErr)
                     => mc[c].apiError # Nil

----------------------------------------------------------------------------
(* C30: a Send...ToTarget call with keyword device, email, channel or      *)
(* client and an empty target is not rejected: the request it sends has    *)
(* the four selector fields empty and is the request the same call sends   *)
(* with keyword all and the same content arguments.                        *)

\* The request of a Send...ToTarget call op with arguments a.
TargetRequest(cl, op, a) ==
    CASE op = "SendNoteToTarget" -> SendNoteToTarget(cl, a[1], a[2], a[3], a[4]).req
      [] op = "SendLinkToTarget" -> SendLinkToTarget(cl, a[1], a[2], a[3], a[4], a[5]).req
      [] op = "SendAddressToTarget" ->
           SendAddressToTarget(cl, a[1], a[2], a[3], a[4], a[5]).req
      [] op = "SendChecklistToTarget" ->
           SendChecklistToTarget(cl, a[1], a[2], a[3], a[4]).req
      [] op = "SendFileToTarget" ->
           SendFileToTarget(cl, a[1], a[2], a[3], a[4], a[5], a[6], a[7]).req

\* The arguments a with keyword all.
ToAll(a) == [a EXCEPT ![1] = "all"]

EmptyTarget(c) ==
    /\ call[c].op \in SendToTargetOps
    /\ call[c].args[1] \in ValidTargetTypes \ {"all"}
    /\ call[c].args[2] = ""

C30_EmptyTargetIsAll ==
    \A c \in Callers :
        EmptyTarget(c)
            => /\ ret[c].err # ErrInvalidTarget
               /\ (Len(client.APIKey) > 0 /\ client.BaseURL # MalformedBaseURL)
                     => Len(sent[c]) = 1
               /\ sent[c] = TargetRequest(client, call[c].op, ToAll(call[c].args))
               /\ sent[c] # Nil => \A k \in Selectors : Payload(c)[k] = JStr("")

C30_Witness ==
    \E c \in Callers :
        /\ EmptyTarget(c)
        /\ call[c].op = "SendChecklistToTarget"
        /\ call[c].args[1] = "device"
        /\ pc[c] = "waiting"
        /\ Payload(c).device_iden = JStr("")

----------------------------------------------------------------------------
(* C24: whenever GetUser, GetDevices, GetContacts, ListSubscriptions,      *)
(* ChannelInfo, GetPushHistory or AuthorizeUpload returns a non-nil error, *)
(* the result it returns with it is the zero value: never an error along   *)
(* with a partly populated result.                                         *)

C24_Ops == C19_Ops \cup {"AuthorizeUpload"}

C24_ZeroResult(op) ==
    IF op = "AuthorizeUpload" THEN Zero(Struct("Authorization"))
    ELSE C19_ZeroResult(op)

C24_ErrorWithZeroResult ==
    \A c \in Callers :
        (call[c].op \in C24_Ops /\ pc[c] = "returned" /\ ret[c].err # NilErr)
            => ret[c].result = Ref(C24_ZeroResult(call[c].op))

----------------------------------------------------------------------------
(* C29: the body of every HTTP response a Client method receives is closed *)
(* before the method returns, on the success path and on every error path, *)
(* in makeCall as in CreateContact, UpdateContact and AuthorizeUpload.     *)

C29_BodiesClosed ==
    \A c \in Callers :
        (Over(c) /\ resp[c].kind = "response") => resBody[c] = "closed"

----------------------------------------------------------------------------
(* C26: uploadFileByPath sends at most one request, a multipart POST to    *)
(* authorization.UploadURL, and only once the file part and the six data   *)
(* fields awsaccesskeyid, acl, key, signature, policy, content-type have   *)
(* been written, in this order, with the values of the authorization       *)
(* unchanged; if the file cannot be opened or a part cannot be written, no *)
(* request is sent and the error is returned; a response with status 300   *)
(* or above gives an error, any status below 300 gives nil.                *)

FormField(name, value) == [name |-> name, filename |-> "", value |-> value]

\* The form the specification gives an upload.
ExpectedForm(authorization, file) ==
    <<[name |-> "file", filename |-> file.path, value |-> file.content],
      FormField("awsaccesskeyid", authorization.Data.Awsaccesskeyid),
      FormField("acl", authorization.Data.Acl),
      FormField("key", authorization.Data.Key),
      FormField("signature", authorization.Data.Signature),
      FormField("policy", authorization.Data.Policy),
      FormField("content-type", authorization.Data.ContentType)>>

\* The file cannot be opened or read, or a part cannot be written.
CannotWrite(args) == args[2].state # "ok" \/ args[3] # 0

C26_Sent(c) ==
    /\ sent[c][1].method = "POST"
    /\ sent[c][1].url = <<call[c].args[1].UploadURL>>
    /\ parts[c] = ExpectedForm(call[c].args[1], call[c].args[2])
    /\ sent[c][1].body = Ref([t |-> "multipart", v |-> parts[c]])

C26_Answered(c) ==
    /\ pc[c] = "returned"
    /\ resp[c].status >= 300 => ret[c].err # NilErr
    /\ resp[c].status < 300 => ret[c].err = NilErr

C26_Upload ==
    \A c \in Callers :
        call[c].op = "uploadFileByPath"
            => /\ Len(sent[c]) <= 1
               /\ sent[c] # Nil => C26_Sent(c)
               /\ CannotWrite(call[c].args) => sent[c] = Nil
               /\ (CannotWrite(call[c].args) /\ pc[c] = "returned")
                     => ret[c].err # NilErr
               /\ resp[c].kind = "response" => C26_Answered(c)

C26_Witness ==
    \E c \in Callers :
        /\ call[c].op = "uploadFileByPath"
        /\ call[c].args[1].Data.Policy = "pol"
        /\ pc[c] = "returned"
        /\ resp[c].kind = "response"
        /\ resp[c].status = 204
        /\ ret[c].err = NilErr
        /\ Len(parts[c]) = 7

----------------------------------------------------------------------------
(* makeCall called on its own, as the methods of the package call it: with *)
(* any method, any path and any payload, a payload json.Marshal rejects    *)
(* included.                                                               *)

\* A value json.Marshal cannot serialize (a channel): UnsupportedTypeError.
Unserializable == [gotype |-> "chan int", v |-> ZeroPushMessage]

\* The data argument of makeCall: nil, a push, or the channel.
MakeCallPayloads ==
    {Nil,
     Ref([gotype |-> "PushMessage",
          v |-> [ZeroPushMessage EXCEPT !.Type = "note", !.Title = "Build Test"]]),
     Ref(Unserializable)}

\* makeCall(method, callp, data) up to c.HTTPClient.Do(req).
EnterMakeCall(c, method, callp, data) ==
    /\ call' = [call EXCEPT ![c] = [op |-> "makeCall",
                                    args |-> <<method, callp, data>>,
                                    frame |-> NoFrame]]
    /\ sent' = [sent EXCEPT ![c] = MakeCallSend(client, method, callp, data).req]
    /\ mc' = [mc EXCEPT ![c] = MakeCallSend(client, method, callp, data).out]
    /\ pc' = [pc EXCEPT ![c] = IF sent'[c] = Nil THEN "returned" ELSE "waiting"]

CallMakeCall(c) ==
    /\ pc[c] = "idle"
    /\ \E method \in {"GET", "POST", "DELETE"},
          callp \in {<<"users/me">>, <<"pushes">>},
          data \in MakeCallPayloads : EnterMakeCall(c, method, callp, data)
    /\ UNCHANGED <<client, resp, ret, logs, resBody, parts>>

\* c.HTTPClient.Do(req) returns and makeCall runs to its return.
ReturnMakeCall(c) ==
    /\ pc[c] = "waiting"
    /\ \E o \in Outcomes : resp' = [resp EXCEPT ![c] = o]
    /\ mc' = [mc EXCEPT ![c] = MakeCallReceive(resp'[c])]
    /\ pc' = [pc EXCEPT ![c] = "returned"]
    /\ resBody' = [resBody EXCEPT ![c] = BodyAfter("makeCall", resp'[c])]
    /\ UNCHANGED <<client, call, sent, ret, logs, parts>>

NextMakeCalls == CallMakeCall("c1") \/ ReturnMakeCall("c1") \/ Continue("c1")

MakeCalls == Init /\ [][NextMakeCalls]_vars

----------------------------------------------------------------------------
(* C25 *)

\* makeCall of caller c has returned without a request, with err.
ReturnedUnsent(c, err) ==
    /\ pc[c] = "returned"
    /\ sent[c] = Nil
    /\ resp[c] = NoResponse
    /\ mc[c] = MakeCallResult(Nil, Nil, err)

\* makeCall of caller c has handed one request to the transport, and its
\* body is the serialized payload, or empty when the payload is nil.
SentOnce(c, method, data) ==
    /\ Len(sent[c]) = 1
    /\ sent[c][1].method = method
    /\ IF data = Nil
       THEN sent[c][1].body = Nil
       ELSE /\ data[1].gotype = "PushMessage"
            /\ sent[c][1].body = Ref(MarshalPushMessage(data[1].v))

\* C25: makeCall checks the key, then serializes the payload, then builds
\* the request, then sends it once: an empty key returns the missing-key
\* error whatever the payload; with a key, a payload that cannot be
\* serialized returns the error of json.Marshal, whatever the URL, and
\* nothing is handed to the transport; a URL that does not parse returns the
\* error of http.NewRequest and nothing is sent; otherwise exactly one
\* request is sent, with an empty body when the payload is nil.
C25_MakeCallOrder ==
    \A c \in Callers :
        (call[c].op = "makeCall") =>
            IF Len(client.APIKey) = 0
            THEN ReturnedUnsent(c, ErrMissingKey)
            ELSE IF call[c].args[3] = Ref(Unserializable)
            THEN ReturnedUnsent(c, Err("json: unsupported type"))
            ELSE IF client.BaseURL = MalformedBaseURL
            THEN ReturnedUnsent(c, ErrURLParse)
            ELSE SentOnce(c, call[c].args[1], call[c].args[3])

\* makeCall has returned the serialization error of a payload, on a client
\* that has a key and a base URL that does not parse.
C25_Witness ==
    /\ call["c1"].op = "makeCall"
    /\ pc["c1"] = "returned"
    /\ Len(client.APIKey) > 0
    /\ client.BaseURL = MalformedBaseURL
    /\ call["c1"].args[3] = Ref(Unserializable)
    /\ mc["c1"].err = Err("json: unsupported type")
    /\ sent["c1"] = Nil

----------------------------------------------------------------------------
(* Two goroutines share one Client: each calls methods of the client, and  *)
(* the calls interleave at the hand-over of the request and at the answer  *)
(* of the transport.  The client has no field a method writes, and the     *)
(* package has no variable of its own; http.Client and the standard logger *)
(* are safe for concurrent use.                                            *)

\* The panic of caller c (apiError.String() on a nil apiError) is not
\* recovered by the package.  When the goroutine of c does not recover it
\* either, the Go runtime ends the program: every other goroutine stops
\* where it is.  (When it is recovered, c stays "panicked" and the others
\* go on.)
Exit(c) ==
    /\ pc[c] = "panicked"
    /\ \E d \in Callers : pc[d] \in {"idle", "waiting", "returned"}
    /\ pc' = [d \in Callers |-> IF pc[d] = "panicked" THEN "panicked" ELSE "exited"]
    /\ UNCHANGED <<client, call, sent, resp, mc, ret, logs, resBody, parts>>

NextShared ==
    \E c \in Callers :
        \/ CallGetUser(c)
        \/ CallSendNote(c)
        \/ CallCreateContact(c)
        \/ CallDeletePush(c)
        \/ Deliver(c)
        \/ Continue(c)
        \/ Exit(c)

Shared == Init /\ [][NextShared]_vars

----------------------------------------------------------------------------
(* C23 *)

\* What method op does with args on client cl, up to its request.
Program(cl, op, args) ==
    CASE op = "GetUser" -> GetUser(cl)
      [] op = "SendNote" -> SendNote(cl, args[1], args[2])
      [] op = "CreateContact" -> CreateContact(cl, args[1], args[2])
      [] op = "DeletePush" -> DeletePush(cl, args[1])

\* How method op ends when it runs alone and its request is answered with o.
Alone(cl, op, args, o) ==
    IF Program(cl, op, args).req = Nil THEN Program(cl, op, args).done
    ELSE IF Program(cl, op, args).frame.through = "makeCall"
    THEN AfterMakeCall(Program(cl, op, args).frame, MakeCallReceive(o))
    ELSE AfterPostForm(Program(cl, op, args).frame, o)

\* The call of caller c as it stands: how it ended, what it returned and
\* what it logged.
Outcome(c) == Ended(pc[c], ret[c], logs[c])

====
